---- MODULE Spec2Model ----
(***************************************************************************)
(* Model of metapox/trav: point-in-time rollback of a versioned bucket     *)
(* (pkg/s3/rollback.go) and per-key change enumeration                     *)
(* (pkg/s3/replay_list.go).                                                *)
(*                                                                         *)
(* The versioned store is a function from keys to histories.  A history is *)
(* the sequence of events of a key in the order the store created them;    *)
(* an event is a version or a delete marker.  Keys are sequences of        *)
(* characters (small integers) so that the store's prefix match is         *)
(* computed, not assumed.  Time is a small integer.                        *)
(***************************************************************************)
EXTENDS Integers, Sequences, FiniteSets, TLC

\* ---------------------------------------------------------------- bounds
MaxTime == 3        \* lastModified of the initial events ranges over 1..MaxTime
MaxHist == 3        \* events in the history of the key rolled back on its own
MaxRuns == 2        \* consecutive single-key rollbacks of the same key
MaxNeighbour == 1   \* events of a key that has the operation's key as a prefix
MaxBatch == 2       \* largest opts.BatchSize of a change enumeration
MaxLog == 2         \* changes in the change log given to a replay
MaxLogTime == 2     \* timestamps of the changes of that log range over 1..MaxLogTime
MaxEvents == 3      \* events in the whole store of a multi-key rollback
MaxWorkers == 2     \* largest opts.Concurrency
PageSize == 2       \* listing page of the store of a multi-key rollback

MaxTimedLog == 2    \* changes in the log of a timed replay
MaxClock == 4       \* instants the clock of a timed replay goes through
MaxWrite == 3       \* changes written to one change-log file
MaxCallers == 2     \* goroutines calling WriteChanges on one writer
MaxPrinted == 2     \* events of the short results the replay command prints
\* ------------------------------------------------------ program constants
MaxKeys == 1000     \* entries the store returns per listing page
DefaultConcurrency == 10   \* workers started when opts.Concurrency <= 0
DefaultBatchSize == 1000   \* batch size used when opts.BatchSize <= 0

AllKeys == {<<1>>, <<1, 1>>, <<2>>}
SingleKeys == {<<1>>, <<1, 1>>}   \* keys a single-key operation is called on
NoMarker == <<>>    \* nil KeyMarker / ContinuationToken
NoVersion == 0      \* nil *string / "" version id
Times == 1..MaxTime
K1 == <<1>>
K2 == <<1, 1>>
K3 == <<2>>

VARIABLES
    store,      \* key -> history (oldest first)
    now,        \* store clock: lastModified given to the next event created
    timestamp,  \* rollback target / enumeration cutoff T
    maxKeys,    \* page size of the store's listings
    key,        \* the key of a single-key operation
    runLog,     \* one record per finished rollbackSingleObject call
    changeLog,  \* one record per finished getChangesForKey(key)
    store0,     \* the store before the operation started
    prefix,     \* opts.Prefix of a multi-key rollback
    optsConcurrency, \* opts.Concurrency as the caller gave it
    concurrency,\* the concurrency in use: number of workers started
    mainPc,     \* position of rollbackMultipleObjects
    listedKeys, \* resp.Contents of its ListObjectsV2 call
    keyCh,      \* keys sent and not yet received (the channel is closed)
    errCh,      \* errors sent by the workers
    wpc,        \* position of each worker goroutine
    wkey,       \* the key a worker received
    result,     \* value returned by rollbackMultipleObjects
    sourceFile, \* the change log of a replay as loadChangesFromFile decodes it
    dryRun,     \* opts.DryRun
    replayChanges, \* the change log sorted by timestamp (changes in Replay)
    eventCh,    \* changes sent to the workers and not yet received
    fed,        \* number of changes the feeding goroutine has sent
    feederPc,   \* position of the feeding goroutine
    wevent,     \* the ReplayEvent a replay worker is working on
    keyMutexes, \* key -> the mutex stored for the key (0: none)
    doneCh,     \* events sent by the workers and not yet collected
    replayResult, \* the ReplayResult the collecting goroutine updates
    destCalls,  \* store operations issued by executeChange, in order
    returned,   \* the ReplayResult as Replay's caller gets it
    batchSize,  \* opts.BatchSize of ProcessChangesStreaming, then the size in use
    fedKeys,    \* number of keys the feeding loop has sent
    closedChs,  \* the channels of ProcessChangesStreaming closed so far
    resultCh,   \* change lists sent by the workers and not yet collected
    wchanges,   \* the change list a worker is about to send
    batch,      \* the batch of the collecting goroutine
    callbacks,  \* the batches passed to the callback, with what it returned
    file,       \* the tokens written to the change-log file so far
    first,      \* FileChangesWriter.first
    mu,         \* holder of FileChangesWriter.mu (0: free)
    plan,       \* caller -> the batches it passes to WriteChanges, in order
    writerPc,   \* position of the writer's owner
    cpc,        \* position of each caller of WriteChanges
    cb,         \* caller -> index of the batch it is writing
    ci,         \* caller -> index of the change it is writing
    loaded,     \* what loadChangesFromFile returns for the closed file
    wallClock,      \* time.Now()
    optsStartTime, \* opts.StartTime (0: the zero time)
    startTime,  \* startTime of Replay
    speedFactor,\* opts.SpeedFactor as a fraction <<numerator, denominator>>
    ignoreTimeWindows, \* opts.IgnoreTimeWindows
    wmutex,     \* the mutex a replay worker got from keyMutexes.LoadOrStore
    locked,     \* the mutexes that are locked
    cmdPc,      \* position of the replay command
    outputFile, \* the --output flag ("": not given)
    stdout,     \* the lines printed on os.Stdout
    outFile     \* the lines written to the --output file (NoFile: not created)

vars == <<store, now, timestamp, maxKeys, key, runLog, changeLog, store0,
          prefix, optsConcurrency, concurrency, mainPc, listedKeys, keyCh, errCh,
          wpc, wkey, result, sourceFile, dryRun, replayChanges, eventCh, fed,
          feederPc,
          wevent, keyMutexes, doneCh, replayResult, destCalls, returned,
          batchSize, fedKeys, closedChs, resultCh, wchanges, batch, callbacks,
          file, first, mu, plan, writerPc, cpc, cb, ci, loaded,
          wallClock, optsStartTime, startTime, speedFactor, ignoreTimeWindows,
          wmutex, locked, cmdPc, outputFile, stdout, outFile>>
cmdVars == <<cmdPc, outputFile, stdout, outFile>>
timingVars == <<wallClock, optsStartTime, startTime, speedFactor, ignoreTimeWindows,
                wmutex, locked>>
writerVars == <<file, first, mu, plan, writerPc, cpc, cb, ci, loaded>>
streamVars == <<batchSize, fedKeys, closedChs, resultCh, wchanges, batch, callbacks>>
replayVars == <<sourceFile, dryRun, replayChanges, eventCh, fed,
          feederPc, wevent,
                keyMutexes, doneCh, replayResult, destCalls, returned>>
multiVars == <<prefix, optsConcurrency, concurrency, mainPc, listedKeys, keyCh,
               errCh, wpc, wkey, result>>

\* ------------------------------------------------------------ time.Time
Before(a, b) == a < b
After(a, b) == a > b

\* ------------------------------------------------------------- the store
HasPrefix(k, p) == Len(p) <= Len(k) /\ SubSeq(k, 1, Len(p)) = p

RECURSIVE KeyLess(_, _)
KeyLess(a, b) ==
    IF a = <<>> THEN b # <<>>
    ELSE IF b = <<>> THEN FALSE
    ELSE IF Head(a) # Head(b) THEN Head(a) < Head(b)
    ELSE KeyLess(Tail(a), Tail(b))

RECURSIVE SortKeys(_)
SortKeys(S) ==
    IF S = {} THEN <<>>
    ELSE LET m == CHOOSE x \in S : \A y \in S \ {x} : KeyLess(x, y)
         IN <<m>> \o SortKeys(S \ {m})

Take(s, n) == SubSeq(s, 1, IF Len(s) < n THEN Len(s) ELSE n)

\* the entries of one key as the store lists them: newest first
KeyEntries(st, k) ==
    LET h == st[k]
    IN [i \in 1..Len(h) |->
          [Key |-> k,
           VersionId |-> h[Len(h) + 1 - i].vid,
           LastModified |-> h[Len(h) + 1 - i].lm,
           IsDeleteMarker |-> h[Len(h) + 1 - i].marker,
           IsLatest |-> i = 1]]

RECURSIVE FlattenEntries(_, _)
FlattenEntries(st, ks) ==
    IF ks = <<>> THEN <<>>
    ELSE KeyEntries(st, Head(ks)) \o FlattenEntries(st, Tail(ks))

IsVersionEntry(e) == ~e.IsDeleteMarker
IsMarkerEntry(e) == e.IsDeleteMarker

\* one page of ListObjectVersions(Prefix, KeyMarker): the entries of the keys
\* matching the prefix and after the key marker, in key order, newest first
ListObjectVersions(st, pfx, keyMarker, limit) ==
    LET ks == SortKeys({k \in AllKeys :
                  /\ HasPrefix(k, pfx)
                  /\ (keyMarker = NoMarker \/ KeyLess(keyMarker, k))})
        all == FlattenEntries(st, ks)
        page == Take(all, limit)
    IN [Versions |-> SelectSeq(page, IsVersionEntry),
        DeleteMarkers |-> SelectSeq(page, IsMarkerEntry),
        IsTruncated |-> Len(all) > limit,
        NextKeyMarker |-> IF Len(all) > limit THEN page[Len(page)].Key
                          ELSE NoMarker]

\* a key is a current object when its newest event is a version
IsCurrent(st, k) == Len(st[k]) > 0 /\ ~st[k][Len(st[k])].marker

\* one page of ListObjectsV2(Prefix): the current objects matching the prefix
ListObjectsV2(st, pfx, limit) ==
    LET all == SortKeys({k \in AllKeys : HasPrefix(k, pfx) /\ IsCurrent(st, k)})
    IN [Contents |-> Take(all, limit), IsTruncated |-> Len(all) > limit]

\* DeleteObject on a versioned bucket adds a delete marker
DeleteObject(st, k, clock) ==
    [st EXCEPT ![k] = Append(@, [vid |-> Len(@) + 1, lm |-> clock,
                                 marker |-> TRUE, content |-> 0])]

\* CopyObject of (k, versionId) onto k adds a version with the source's content
CopyObject(st, k, versionID, clock) ==
    LET src == CHOOSE i \in 1..Len(st[k]) : st[k][i].vid = versionID
    IN [st EXCEPT ![k] = Append(@, [vid |-> Len(@) + 1, lm |-> clock,
                                    marker |-> FALSE,
                                    content |-> st[k][src].content])]

\* ------------------------------------------------- pkg/s3/rollback.go
NoTime == -1        \* nil *time.Time
Workers == 1..(IF MaxWorkers > DefaultConcurrency THEN MaxWorkers
               ELSE DefaultConcurrency)
Faults == {"none", "list", "find", "mutation"}   \* the store call that fails

\* mutant: every entry the prefix listing returned is kept
FilterKey_PrefixMatch(entries, k) == entries

RECURSIVE FilterKey(_, _)
FilterKey(entries, k) ==
    IF entries = <<>> THEN <<>>
    ELSE (IF Head(entries).Key = k THEN <<Head(entries)>> ELSE <<>>)
         \o FilterKey(Tail(entries), k)

Result(calls, err, st) == [calls |-> calls, err |-> err, store |-> st]

RECURSIVE firstVersionTime(_, _)
firstVersionTime(versions, acc) ==
    IF versions = <<>> THEN acc
    ELSE LET v == Head(versions)
         IN firstVersionTime(Tail(versions),
                IF acc = NoTime \/ Before(v.LastModified, acc)
                THEN v.LastModified ELSE acc)

\* mutant: the negation of Before is dropped
hasChangesAfterTimestamp_Inverted(versions, ts) ==
    \E i \in 1..Len(versions) : Before(versions[i].LastModified, ts)

hasChangesAfterTimestamp(versions, ts) ==
    \E i \in 1..Len(versions) : ~Before(versions[i].LastModified, ts)

\* mutant: a first version exactly at T is not "created after T"
isCreatedAfterTimestamp_Strict(versions, ts) ==
    LET t == firstVersionTime(versions, NoTime)
    IN t # NoTime /\ After(t, ts)

isCreatedAfterTimestamp(versions, ts) ==
    LET t == firstVersionTime(versions, NoTime)
    IN t # NoTime /\ ~Before(t, ts)

\* mutant: a version exactly at T is taken as "before T"
RECURSIVE latestVersionBeforeTimestamp_AtOrBefore(_, _, _, _)
latestVersionBeforeTimestamp_AtOrBefore(versions, k, ts, acc) ==
    IF versions = <<>> THEN acc
    ELSE LET v == Head(versions)
             newer == /\ v.Key = k
                      /\ ~After(v.LastModified, ts)
                      /\ (acc.vid = NoVersion \/ After(v.LastModified, acc.lm))
         IN latestVersionBeforeTimestamp_AtOrBefore(Tail(versions), k, ts,
                IF newer THEN [vid |-> v.VersionId, lm |-> v.LastModified]
                ELSE acc)

RECURSIVE latestVersionBeforeTimestamp(_, _, _, _)
latestVersionBeforeTimestamp(versions, k, ts, acc) ==
    IF versions = <<>> THEN acc
    ELSE LET v == Head(versions)
             newer == /\ v.Key = k
                      /\ Before(v.LastModified, ts)
                      /\ (acc.vid = NoVersion \/ After(v.LastModified, acc.lm))
         IN latestVersionBeforeTimestamp(Tail(versions), k, ts,
                IF newer THEN [vid |-> v.VersionId, lm |-> v.LastModified]
                ELSE acc)

findVersionBeforeTimestamp(st, k, ts, fault, limit) ==
    LET resp == ListObjectVersions(st, k, NoMarker, limit)
        latest == latestVersionBeforeTimestamp(resp.Versions, k, ts,
                      [vid |-> NoVersion, lm |-> 0])
    IN IF fault = "find" THEN [versionID |-> NoVersion, err |-> "ErrListVersions"]
       ELSE IF latest.vid = NoVersion
            THEN [versionID |-> NoVersion, err |-> "ErrNoVersionBefore"]
       ELSE [versionID |-> latest.vid, err |-> "nil"]

copySpecificVersion(st, k, versionID, fault, clock) ==
    LET call == [op |-> "CopyObject", key |-> k, versionId |-> versionID]
    IN IF fault = "mutation" THEN Result(<<call>>, "ErrCopy", st)
       ELSE Result(<<call>>, "nil", CopyObject(st, k, versionID, clock))

\* mutant: the "object not found" check on an empty version list is missing
rollbackSingleObject_NoEmptyCheck(st, k, ts, fault, clock, limit) ==
    LET resp == ListObjectVersions(st, k, NoMarker, limit)
        versions == FilterKey(resp.Versions, k)
        del == [op |-> "DeleteObject", key |-> k, versionId |-> NoVersion]
        found == findVersionBeforeTimestamp(st, k, ts, fault, limit)
    IN IF fault = "list" THEN Result(<<>>, "ErrListVersions", st)
       ELSE IF ~hasChangesAfterTimestamp(versions, ts) THEN Result(<<>>, "nil", st)
       ELSE IF isCreatedAfterTimestamp(versions, ts)
            THEN IF fault = "mutation" THEN Result(<<del>>, "ErrDelete", st)
                 ELSE Result(<<del>>, "nil", DeleteObject(st, k, clock))
       ELSE IF found.err # "nil" THEN Result(<<>>, found.err, st)
       ELSE copySpecificVersion(st, k, found.versionID, fault, clock)

rollbackSingleObject(st, k, ts, fault, clock, limit) ==
    LET resp == ListObjectVersions(st, k, NoMarker, limit)
        versions == FilterKey(resp.Versions, k)
        del == [op |-> "DeleteObject", key |-> k, versionId |-> NoVersion]
        found == findVersionBeforeTimestamp(st, k, ts, fault, limit)
    IN IF fault = "list" THEN Result(<<>>, "ErrListVersions", st)
       ELSE IF Len(versions) = 0 THEN Result(<<>>, "ErrNotFound", st)
       ELSE IF ~hasChangesAfterTimestamp(versions, ts) THEN Result(<<>>, "nil", st)
       ELSE IF isCreatedAfterTimestamp(versions, ts)
            THEN IF fault = "mutation" THEN Result(<<del>>, "ErrDelete", st)
                 ELSE Result(<<del>>, "nil", DeleteObject(st, k, clock))
       ELSE IF found.err # "nil" THEN Result(<<>>, found.err, st)
       ELSE copySpecificVersion(st, k, found.versionID, fault, clock)

\* ---------------------------------------------- pkg/s3/replay_list.go
RECURSIVE getAllVersionsForKey(_, _, _, _, _)
getAllVersionsForKey(st, k, limit, continuationToken, res) ==
    LET resp == ListObjectVersions(st, k, continuationToken, limit)
        next == [Versions |-> res.Versions \o FilterKey(resp.Versions, k),
                 DeleteMarkers |->
                     res.DeleteMarkers \o FilterKey(resp.DeleteMarkers, k)]
    IN IF ~resp.IsTruncated THEN next
       ELSE getAllVersionsForKey(st, k, limit, resp.NextKeyMarker, next)

\* mutant: the newest version is taken for the oldest
RECURSIVE oldestVersion_Newest(_, _, _)
oldestVersion_Newest(versions, i, acc) ==
    IF i > Len(versions) THEN acc
    ELSE oldestVersion_Newest(versions, i + 1,
            IF i = 1 \/ After(versions[i].LastModified, acc.lm)
            THEN [vid |-> versions[i].VersionId, lm |-> versions[i].LastModified]
            ELSE acc)

RECURSIVE oldestVersion(_, _, _)
oldestVersion(versions, i, acc) ==
    IF i > Len(versions) THEN acc
    ELSE oldestVersion(versions, i + 1,
            IF i = 1 \/ Before(versions[i].LastModified, acc.lm)
            THEN [vid |-> versions[i].VersionId, lm |-> versions[i].LastModified]
            ELSE acc)

isFirstVersionOfKey(versions, versionID) ==
    IF Len(versions) = 0 THEN FALSE
    ELSE oldestVersion(versions, 1, [vid |-> NoVersion, lm |-> 0]).vid = versionID

\* mutant: the first version before the timestamp wins, not the latest
RECURSIVE latestVersion_First(_, _, _, _)
latestVersion_First(versions, k, ts, acc) ==
    IF versions = <<>> THEN acc
    ELSE LET v == Head(versions)
             newer == /\ v.Key = k
                      /\ Before(v.LastModified, ts)
                      /\ (acc.vid = NoVersion \/ Before(v.LastModified, acc.lm))
         IN latestVersion_First(Tail(versions), k, ts,
                IF newer THEN [vid |-> v.VersionId, lm |-> v.LastModified]
                ELSE acc)

RECURSIVE latestVersion(_, _, _, _)
latestVersion(versions, k, ts, acc) ==
    IF versions = <<>> THEN acc
    ELSE LET v == Head(versions)
             newer == /\ v.Key = k
                      /\ Before(v.LastModified, ts)
                      /\ (acc.vid = NoVersion \/ After(v.LastModified, acc.lm))
         IN latestVersion(Tail(versions), k, ts,
                IF newer THEN [vid |-> v.VersionId, lm |-> v.LastModified]
                ELSE acc)

findLatestVersionBeforeTimestamp(versions, k, ts) ==
    latestVersion(versions, k, ts, [vid |-> NoVersion, lm |-> 0]).vid

\* sort.Slice by Timestamp.Before; short slices are insertion-sorted
\* mutant: the slice is left in the order it was built
insertChange_Unsorted(sorted, c) == Append(sorted, c)

RECURSIVE insertChange(_, _)
insertChange(sorted, c) ==
    IF sorted = <<>> THEN <<c>>
    ELSE LET last == sorted[Len(sorted)]
         IN IF Before(c.Timestamp, last.Timestamp)
            THEN insertChange(SubSeq(sorted, 1, Len(sorted) - 1), c) \o <<last>>
            ELSE Append(sorted, c)

RECURSIVE sortChanges(_, _)
sortChanges(changes, sorted) ==
    IF changes = <<>> THEN sorted
    ELSE sortChanges(Tail(changes), insertChange(sorted, Head(changes)))

RECURSIVE filterSince(_, _)
filterSince(entries, ts) ==
    IF entries = <<>> THEN <<>>
    ELSE (IF ~Before(Head(entries).LastModified, ts) THEN <<Head(entries)>> ELSE <<>>)
         \o filterSince(Tail(entries), ts)

newChange(e) ==
    [Key |-> e.Key, VersionID |-> e.VersionId,
     ChangeType |-> IF e.IsDeleteMarker THEN "DELETE" ELSE "UPDATE",
     Timestamp |-> e.LastModified, IsDeleteMarker |-> e.IsDeleteMarker,
     PreviousVersionID |-> NoVersion]

RECURSIVE versionBeforeDelete(_, _)
versionBeforeDelete(changes, j) ==
    IF j < 1 THEN NoVersion
    ELSE IF ~changes[j].IsDeleteMarker THEN changes[j].VersionID
    ELSE versionBeforeDelete(changes, j - 1)

\* mutant: an UPDATE names the first emitted change, not the one before it
classifyChange_FirstEmitted(changes, i, versions, k, ts) ==
    LET c == changes[i]
    IN IF i = 1
       THEN IF isFirstVersionOfKey(versions, c.VersionID)
            THEN [c EXCEPT !.ChangeType = "CREATE"]
            ELSE IF ~c.IsDeleteMarker
                 THEN [c EXCEPT !.PreviousVersionID =
                          findLatestVersionBeforeTimestamp(versions, k, ts)]
                 ELSE c
       ELSE IF ~c.IsDeleteMarker /\ changes[i - 1].IsDeleteMarker
            THEN [c EXCEPT !.ChangeType = "UNDELETE",
                           !.PreviousVersionID = versionBeforeDelete(changes, i - 2)]
       ELSE IF ~c.IsDeleteMarker /\ ~changes[i - 1].IsDeleteMarker
            THEN [c EXCEPT !.PreviousVersionID = changes[1].VersionID]
       ELSE c

classifyChange(changes, i, versions, k, ts) ==
    LET c == changes[i]
    IN IF i = 1
       THEN IF isFirstVersionOfKey(versions, c.VersionID)
            THEN [c EXCEPT !.ChangeType = "CREATE"]
            ELSE IF ~c.IsDeleteMarker
                 THEN [c EXCEPT !.PreviousVersionID =
                          findLatestVersionBeforeTimestamp(versions, k, ts)]
                 ELSE c
       ELSE IF ~c.IsDeleteMarker /\ changes[i - 1].IsDeleteMarker
            THEN [c EXCEPT !.ChangeType = "UNDELETE",
                           !.PreviousVersionID = versionBeforeDelete(changes, i - 2)]
       ELSE IF ~c.IsDeleteMarker /\ ~changes[i - 1].IsDeleteMarker
            THEN [c EXCEPT !.PreviousVersionID = changes[i - 1].VersionID]
       ELSE c

getChangesForKey(st, k, ts, fault, limit) ==
    LET allKeyVersions == getAllVersionsForKey(st, k, limit, NoMarker,
                              [Versions |-> <<>>, DeleteMarkers |-> <<>>])
        filteredVersions == filterSince(allKeyVersions.Versions, ts)
        filteredDeleteMarkers == filterSince(allKeyVersions.DeleteMarkers, ts)
        unsorted == [i \in 1..Len(filteredVersions) |-> newChange(filteredVersions[i])]
                    \o [i \in 1..Len(filteredDeleteMarkers) |->
                            newChange(filteredDeleteMarkers[i])]
        changes == sortChanges(unsorted, <<>>)
    IN IF fault = "list" THEN [changes |-> <<>>, err |-> "ErrListVersions"]
       ELSE [changes |-> [i \in 1..Len(changes) |->
                            classifyChange(changes, i, allKeyVersions.Versions, k, ts)],
             err |-> "nil"]

\* --------------------------------------------------- pkg/s3/replay.go
NoEvent == [Status |-> "NONE"]      \* a worker between two changes
NoResult == [Status |-> "NONE"]     \* Replay has not returned

ChangeKeys == {K1, K3}
LogTimes == 1..MaxLogTime

Change(k, vid, type, ts, prev) ==
    [Key |-> k, VersionID |-> vid, ChangeType |-> type, Timestamp |-> ts,
     IsDeleteMarker |-> type = "DELETE", PreviousVersionID |-> prev]

\* the changes a log file can hold; "PURGE" is a type executeChange does not know
ChangeSet ==
    {Change(k, vid, type, ts, NoVersion) :
        k \in ChangeKeys, vid \in {NoVersion, 1}, type \in {"CREATE", "UPDATE"},
        ts \in LogTimes}
    \cup {Change(k, 2, type, ts, NoVersion) :
        k \in ChangeKeys, type \in {"DELETE", "PURGE"}, ts \in LogTimes}
    \cup {Change(k, 3, "UNDELETE", ts, prev) :
        k \in ChangeKeys, ts \in LogTimes, prev \in {NoVersion, 1}}

\* the logs of n entries, each with a version id of its own
CoreLogs(n) ==
    {[i \in 1..n |-> Change(f[i].k, 10 + i, f[i].type, f[i].ts, NoVersion)] :
        f \in [1..n -> [k : ChangeKeys, type : {"UPDATE", "DELETE"}, ts : LogTimes]]}

\* the logs of two entries: a change executeChange fails on without calling
\* the store (unknown type, UNDELETE without previous version) and an UPDATE
MixedLogs ==
    UNION {{<<e, u>>, <<u, e>>} :
        e \in {c \in ChangeSet : /\ c.Key = K1
                                /\ c.PreviousVersionID = NoVersion
                                /\ c.ChangeType \in {"PURGE", "UNDELETE"}},
        u \in {Change(k, 11, "UPDATE", ts, NoVersion) : k \in ChangeKeys, ts \in LogTimes}}

\* the decoded log files: empty, one change of any kind, or several changes
Logs ==
    {<<>>} \cup {<<c>> : c \in ChangeSet} \cup UNION {CoreLogs(n) : n \in 2..MaxLog}
    \cup MixedLogs

\* opts.SourceBucket and opts.DestBucket; NoBucket: the call reads no bucket
SourceBucket == "source"
DestBucket == "dest"
NoBucket == "none"

\* copyObject / undeleteObject: CopyObject (Bucket: destBucket, Key: change.Key,
\* CopySource: sourceBucket/key?versionId=...)
copyObject(change, versionID, fault, errName) ==
    [calls |-> <<[op |-> "CopyObject", bucket |-> DestBucket, key |-> change.Key,
                  source |-> SourceBucket, versionId |-> versionID]>>,
     err |-> IF fault = "mutation" THEN errName ELSE "nil"]

\* deleteObject: DeleteObject (Bucket: destBucket, Key: change.Key)
deleteObject(change, fault) ==
    [calls |-> <<[op |-> "DeleteObject", bucket |-> DestBucket, key |-> change.Key,
                  source |-> NoBucket, versionId |-> NoVersion]>>,
     err |-> IF fault = "mutation" THEN "ErrDelete" ELSE "nil"]

\* mutant: the version of the change itself is copied
undeleteObject_OwnVersion(change, fault) ==
    IF change.PreviousVersionID = NoVersion
    THEN [calls |-> <<>>, err |-> "ErrNoPreviousVersion"]
    ELSE copyObject(change, change.VersionID, fault, "ErrUndelete")

\* undeleteObject: fails without a previous version id, else copies it
undeleteObject(change, fault) ==
    IF change.PreviousVersionID = NoVersion
    THEN [calls |-> <<>>, err |-> "ErrNoPreviousVersion"]
    ELSE copyObject(change, change.PreviousVersionID, fault, "ErrUndelete")

\* mutant: a change of unknown type is skipped without an error
executeChange_UnknownSkipped(change, fault) ==
    CASE change.ChangeType \in {"CREATE", "UPDATE"} ->
            copyObject(change, change.VersionID, fault, "ErrCopy")
      [] change.ChangeType = "DELETE" -> deleteObject(change, fault)
      [] change.ChangeType = "UNDELETE" -> undeleteObject(change, fault)
      [] OTHER -> [calls |-> <<>>, err |-> "nil"]

\* executeChange: the operation of the change type, an error for any other type
executeChange(change, fault) ==
    CASE change.ChangeType \in {"CREATE", "UPDATE"} ->
            copyObject(change, change.VersionID, fault, "ErrCopy")
      [] change.ChangeType = "DELETE" -> deleteObject(change, fault)
      [] change.ChangeType = "UNDELETE" -> undeleteObject(change, fault)
      [] OTHER -> [calls |-> <<>>, err |-> "ErrUnknownType"]

EmptyResult(total) ==
    [TotalEvents |-> total, SuccessEvents |-> 0, FailedEvents |-> 0,
     SkippedEvents |-> 0, Events |-> <<>>]

\* no change enumeration over keys is running
StreamIdle ==
    /\ batchSize = 0
    /\ fedKeys = 0
    /\ closedChs = {}
    /\ resultCh = <<>>
    /\ wchanges = [w \in Workers |-> <<>>]
    /\ batch = <<>>
    /\ callbacks = <<>>

Callers == 1..MaxCallers

\* no change-log file is being written
WriterIdle ==
    /\ file = <<>>
    /\ first = FALSE
    /\ mu = 0
    /\ plan = [c \in Callers |-> <<>>]
    /\ writerPc = "off"
    /\ cpc = [c \in Callers |-> "off"]
    /\ cb = [c \in Callers |-> 0]
    /\ ci = [c \in Callers |-> 0]
    /\ loaded = [Status |-> "NONE"]

NoFile == <<[line |-> "no file"]>>   \* the --output file was not created

\* the replay command is not running
CmdIdle ==
    /\ cmdPc = "off"
    /\ outputFile = ""
    /\ stdout = <<>>
    /\ outFile = NoFile

\* no replay is running
ReplayIdle ==
    /\ sourceFile = <<>>
    /\ dryRun = FALSE
    /\ replayChanges = <<>>
    /\ eventCh = <<>>
    /\ fed = 0
    /\ feederPc = "off"
    /\ wevent = [w \in Workers |-> NoEvent]
    /\ keyMutexes = [k \in AllKeys |-> 0]
    /\ doneCh = <<>>
    /\ replayResult = EmptyResult(0)
    /\ destCalls = <<>>
    /\ returned = NoResult
    /\ wallClock = 1
    /\ optsStartTime = 0
    /\ startTime = 0
    /\ speedFactor = <<1, 1>>
    /\ ignoreTimeWindows = FALSE
    /\ wmutex = [w \in Workers |-> 0]
    /\ locked = {}

\* ============================================= single-key specification
\* rollbackSingleObject and getChangesForKey called on one key of a store
\* whose listings fit one page.
NonDecreasing(h) == \A i \in 1..(Len(h) - 1) : h[i].lm <= h[i + 1].lm

Histories(n) ==
    UNION {{h \in [1..len -> [lm : Times, marker : BOOLEAN]] : NonDecreasing(h)}
           : len \in 0..n}

\* version ids are given in creation order; each initial version has its own content
MakeHistory(h) ==
    [i \in 1..Len(h) |-> [vid |-> i, lm |-> h[i].lm, marker |-> h[i].marker,
                          content |-> IF h[i].marker THEN 0 ELSE i]]

MaxOf(S) == CHOOSE x \in S : \A y \in S : y <= x

StoreTimes(st) == UNION {{st[k][i].lm : i \in 1..Len(st[k])} : k \in AllKeys}

\* the version ids of another key are not those of the operation's key
MakeNeighbourHistory(h) ==
    [i \in 1..Len(h) |-> [vid |-> 100 + i, lm |-> h[i].lm, marker |-> h[i].marker,
                          content |-> IF h[i].marker THEN 0 ELSE 100 + i]]

\* the store holds the operation's key and, next to it, the key K2, which has
\* K1 as a prefix
InitSingle ==
    /\ key \in SingleKeys
    /\ \E h \in Histories(MaxHist), g \in Histories(MaxNeighbour) :
           store = [k \in AllKeys |->
                       IF k = key THEN MakeHistory(h)
                       ELSE IF k = K2 THEN MakeNeighbourHistory(g)
                       ELSE <<>>]
    /\ timestamp \in 0..(MaxTime + 1)
    /\ \E d \in 0..1 : now = MaxOf(StoreTimes(store) \cup {1}) + d
    /\ maxKeys = MaxKeys
    /\ runLog = <<>>
    /\ changeLog = <<>>
    /\ store0 = store
    /\ prefix = <<>>
    /\ optsConcurrency = 0
    /\ concurrency = 0
    /\ mainPc = "off"
    /\ listedKeys = <<>>
    /\ keyCh = <<>>
    /\ errCh = <<>>
    /\ wpc = [w \in Workers |-> "off"]
    /\ wkey = [w \in Workers |-> NoMarker]
    /\ result = "none"
    /\ ReplayIdle
    /\ CmdIdle
    /\ StreamIdle
    /\ WriterIdle

\* time passes between two calls
Tick(clock) == clock + 1

RollbackSingleObject ==
    /\ Len(runLog) < MaxRuns
    /\ \E fault \in Faults :
          LET r == rollbackSingleObject(store, key, timestamp, fault, now, maxKeys)
          IN /\ store' = r.store
             /\ runLog' = Append(runLog, [key |-> key, hist |-> store[key],
                                          calls |-> r.calls, err |-> r.err,
                                          fault |-> fault])
             /\ now' = Tick(now)
    /\ UNCHANGED <<timestamp, maxKeys, key, changeLog, store0>>
    /\ UNCHANGED multiVars
    /\ UNCHANGED replayVars
    /\ UNCHANGED timingVars
    /\ UNCHANGED writerVars
    /\ UNCHANGED cmdVars
    /\ UNCHANGED streamVars

GetChangesForKey ==
    /\ Len(changeLog) < 1
    /\ \E fault \in {"none", "list"} :
          LET r == getChangesForKey(store, key, timestamp, fault, maxKeys)
          IN changeLog' = Append(changeLog, [key |-> key, hist |-> store[key],
                                   changes |-> r.changes, err |-> r.err,
                                   fault |-> fault])
    /\ UNCHANGED <<store, now, timestamp, maxKeys, key, runLog, store0>>
    /\ UNCHANGED multiVars
    /\ UNCHANGED replayVars
    /\ UNCHANGED timingVars
    /\ UNCHANGED writerVars
    /\ UNCHANGED cmdVars
    /\ UNCHANGED streamVars

NextSingle == RollbackSingleObject \/ GetChangesForKey

SpecSingle == InitSingle /\ [][NextSingle]_vars

\* ============================================== multi-key specification
\* rollbackMultipleObjects(bucket, prefix, timestamp, concurrency) on a store
\* whose listings are cut into pages of PageSize entries.
HistoriesOfLen(n) ==
    {h \in [1..n -> [lm : Times, marker : BOOLEAN]] : NonDecreasing(h)}

Init ==
    /\ \E n1 \in 0..MaxEvents, n2 \in 0..MaxEvents, n3 \in 0..MaxEvents :
          /\ n1 + n2 + n3 <= MaxEvents
          /\ \E h1 \in HistoriesOfLen(n1), h2 \in HistoriesOfLen(n2),
                h3 \in HistoriesOfLen(n3) :
                store = (K1 :> MakeHistory(h1)) @@ (K2 :> MakeHistory(h2))
                        @@ (K3 :> MakeHistory(h3))
    /\ store0 = store
    /\ timestamp \in 2..MaxTime
    /\ now = MaxTime + 1
    /\ maxKeys = PageSize
    /\ prefix \in {<<>>, <<1>>}
    \* the default pool is run on the stores of at most one event
    /\ optsConcurrency \in (IF Len(store[K1]) + Len(store[K2]) + Len(store[K3]) <= 1
                            THEN 0..MaxWorkers ELSE 1..MaxWorkers)
    /\ concurrency = 0
    /\ mainPc = "entry"
    /\ listedKeys = <<>>
    /\ keyCh = <<>>
    /\ errCh = <<>>
    /\ wpc = [w \in Workers |-> "off"]
    /\ wkey = [w \in Workers |-> NoMarker]
    /\ result = "none"
    /\ ReplayIdle
    /\ CmdIdle
    /\ StreamIdle
    /\ WriterIdle
    /\ key = NoMarker
    /\ runLog = <<>>
    /\ changeLog = <<>>

storeVars == <<store, now, timestamp, maxKeys, key, changeLog, store0>>

\* the worker goroutines run the same code: of the workers at one position,
\* the step is taken by the one with the lowest number
IsFirstAt(w, pc) == wpc[w] = pc /\ \A v \in Workers : v < w => wpc[v] # pc

\* Rollback: opts.Concurrency <= 0 is replaced by DefaultConcurrency
Rollback ==
    /\ mainPc = "entry"
    /\ concurrency' = IF optsConcurrency <= 0 THEN DefaultConcurrency
                      ELSE optsConcurrency
    /\ mainPc' = "start"
    /\ UNCHANGED <<storeVars, runLog, prefix, optsConcurrency, listedKeys, keyCh,
                   errCh, wpc, wkey, result>>
    /\ UNCHANGED replayVars
    /\ UNCHANGED timingVars
    /\ UNCHANGED writerVars
    /\ UNCHANGED cmdVars
    /\ UNCHANGED streamVars

\* ListObjectsV2 returns an error: the call returns it
ListObjectsFails ==
    /\ mainPc = "start"
    /\ mainPc' = "returned"
    /\ result' = "ErrListObjects"
    /\ UNCHANGED <<storeVars, runLog, prefix, optsConcurrency, concurrency, listedKeys, keyCh,
                   errCh, wpc, wkey>>
    /\ UNCHANGED replayVars
    /\ UNCHANGED timingVars
    /\ UNCHANGED writerVars
    /\ UNCHANGED cmdVars
    /\ UNCHANGED streamVars

\* mutant: an empty listing is reported as "object not found"
ListObjectsEmpty_NotFound ==
    /\ mainPc = "start"
    /\ Len(ListObjectsV2(store, prefix, maxKeys).Contents) = 0
    /\ mainPc' = "returned"
    /\ result' = "ErrNotFound"
    /\ UNCHANGED <<storeVars, runLog, prefix, optsConcurrency, concurrency, listedKeys, keyCh,
                   errCh, wpc, wkey>>
    /\ UNCHANGED replayVars
    /\ UNCHANGED timingVars
    /\ UNCHANGED writerVars
    /\ UNCHANGED cmdVars
    /\ UNCHANGED streamVars

\* len(resp.Contents) == 0: nothing to do
ListObjectsEmpty ==
    /\ mainPc = "start"
    /\ Len(ListObjectsV2(store, prefix, maxKeys).Contents) = 0
    /\ mainPc' = "returned"
    /\ result' = "nil"
    /\ UNCHANGED <<storeVars, runLog, prefix, optsConcurrency, concurrency, listedKeys, keyCh,
                   errCh, wpc, wkey>>
    /\ UNCHANGED replayVars
    /\ UNCHANGED timingVars
    /\ UNCHANGED writerVars
    /\ UNCHANGED cmdVars
    /\ UNCHANGED streamVars

\* mutant: one worker more than the concurrency is started
StartWorkers_OneMore ==
    /\ mainPc = "start"
    /\ LET resp == ListObjectsV2(store, prefix, maxKeys)
       IN /\ Len(resp.Contents) > 0
          /\ listedKeys' = resp.Contents
          /\ keyCh' = resp.Contents
    /\ errCh' = <<>>
    /\ wpc' = [w \in Workers |-> IF w <= concurrency + 1 THEN "recv" ELSE "off"]
    /\ mainPc' = "wait"
    /\ UNCHANGED <<storeVars, runLog, prefix, optsConcurrency, concurrency, wkey, result>>
    /\ UNCHANGED replayVars
    /\ UNCHANGED timingVars
    /\ UNCHANGED writerVars
    /\ UNCHANGED cmdVars
    /\ UNCHANGED streamVars

\* all keys of resp.Contents are sent to keyCh (buffered to their number), the
\* channel is closed and the workers are started
StartWorkers ==
    /\ mainPc = "start"
    /\ LET resp == ListObjectsV2(store, prefix, maxKeys)
       IN /\ Len(resp.Contents) > 0
          /\ listedKeys' = resp.Contents
          /\ keyCh' = resp.Contents
    /\ errCh' = <<>>
    /\ wpc' = [w \in Workers |-> IF w <= concurrency THEN "recv" ELSE "off"]
    /\ mainPc' = "wait"
    /\ UNCHANGED <<storeVars, runLog, prefix, optsConcurrency, concurrency, wkey, result>>
    /\ UNCHANGED replayVars
    /\ UNCHANGED timingVars
    /\ UNCHANGED writerVars
    /\ UNCHANGED cmdVars
    /\ UNCHANGED streamVars

\* mutant: the key is read but stays in the channel
WorkerReceive_Peek(w) ==
    /\ IsFirstAt(w, "recv")
    /\ keyCh # <<>>
    /\ wkey' = [wkey EXCEPT ![w] = Head(keyCh)]
    /\ wpc' = [wpc EXCEPT ![w] = "rollback"]
    /\ UNCHANGED <<storeVars, runLog, prefix, optsConcurrency, concurrency, mainPc, listedKeys,
                   keyCh, errCh, result>>
    /\ UNCHANGED replayVars
    /\ UNCHANGED timingVars
    /\ UNCHANGED writerVars
    /\ UNCHANGED cmdVars
    /\ UNCHANGED streamVars

\* for key := range keyCh: a key is received
WorkerReceive(w) ==
    /\ IsFirstAt(w, "recv")
    /\ keyCh # <<>>
    /\ wkey' = [wkey EXCEPT ![w] = Head(keyCh)]
    /\ keyCh' = Tail(keyCh)
    /\ wpc' = [wpc EXCEPT ![w] = "rollback"]
    /\ UNCHANGED <<storeVars, runLog, prefix, optsConcurrency, concurrency, mainPc, listedKeys,
                   errCh, result>>
    /\ UNCHANGED replayVars
    /\ UNCHANGED timingVars
    /\ UNCHANGED writerVars
    /\ UNCHANGED cmdVars
    /\ UNCHANGED streamVars

\* for key := range keyCh: the closed channel is drained, the worker exits
WorkerDrained(w) ==
    /\ IsFirstAt(w, "recv")
    /\ keyCh = <<>>
    /\ wpc' = [wpc EXCEPT ![w] = "done"]
    /\ UNCHANGED <<storeVars, runLog, prefix, optsConcurrency, concurrency, mainPc, listedKeys,
                   keyCh, errCh, wkey, result>>
    /\ UNCHANGED replayVars
    /\ UNCHANGED timingVars
    /\ UNCHANGED writerVars
    /\ UNCHANGED cmdVars
    /\ UNCHANGED streamVars

\* rollbackSingleObject(key); on an error the worker sends it and returns
WorkerRollback(w) ==
    /\ wpc[w] = "rollback"
    /\ \E fault \in Faults :
          LET r == rollbackSingleObject(store, wkey[w], timestamp, fault, now, maxKeys)
          IN /\ store' = r.store
             /\ runLog' = Append(runLog, [key |-> wkey[w], hist |-> store[wkey[w]],
                                          calls |-> r.calls, err |-> r.err,
                                          fault |-> fault])
             /\ errCh' = IF r.err # "nil"
                         THEN Append(errCh, [key |-> wkey[w], err |-> r.err])
                         ELSE errCh
             /\ wpc' = [wpc EXCEPT ![w] = IF r.err # "nil" THEN "done" ELSE "recv"]
    /\ UNCHANGED <<now, timestamp, maxKeys, key, changeLog, store0, prefix,
                   optsConcurrency, concurrency, mainPc, listedKeys, keyCh, wkey,
                   result>>
    /\ UNCHANGED replayVars
    /\ UNCHANGED timingVars
    /\ UNCHANGED writerVars
    /\ UNCHANGED cmdVars
    /\ UNCHANGED streamVars

\* mutant: the last error in errCh is returned
WaitAndReturn_LastError ==
    /\ mainPc = "wait"
    /\ \A w \in Workers : wpc[w] \in {"off", "done"}
    /\ result' = IF errCh # <<>> THEN errCh[Len(errCh)].err ELSE "nil"
    /\ mainPc' = "returned"
    /\ UNCHANGED <<storeVars, runLog, prefix, optsConcurrency, concurrency, listedKeys, keyCh,
                   errCh, wpc, wkey>>
    /\ UNCHANGED replayVars
    /\ UNCHANGED timingVars
    /\ UNCHANGED writerVars
    /\ UNCHANGED cmdVars
    /\ UNCHANGED streamVars

\* wg.Wait(); close(errCh); the first error in errCh, if any, is returned
WaitAndReturn ==
    /\ mainPc = "wait"
    /\ \A w \in Workers : wpc[w] \in {"off", "done"}
    /\ result' = IF errCh # <<>> THEN Head(errCh).err ELSE "nil"
    /\ mainPc' = "returned"
    /\ UNCHANGED <<storeVars, runLog, prefix, optsConcurrency, concurrency, listedKeys, keyCh,
                   errCh, wpc, wkey>>
    /\ UNCHANGED replayVars
    /\ UNCHANGED timingVars
    /\ UNCHANGED writerVars
    /\ UNCHANGED cmdVars
    /\ UNCHANGED streamVars

Next ==
    \/ Rollback
    \/ ListObjectsFails
    \/ ListObjectsEmpty
    \/ StartWorkers
    \/ \E w \in Workers : WorkerReceive(w)
    \/ \E w \in Workers : WorkerDrained(w)
    \/ \E w \in Workers : WorkerRollback(w)
    \/ WaitAndReturn

Spec == Init /\ [][Next]_vars

\* ==================================================== replay specification
\* Replay(opts) on a change log of up to MaxLog entries.
rollbackVars == <<store, now, timestamp, maxKeys, key, runLog, changeLog, store0,
                  prefix, listedKeys, keyCh, errCh, wkey, result, streamVars>>

\* no rollback and no enumeration is running
RollbackIdle ==
    /\ store = [k \in AllKeys |-> <<>>]
    /\ store0 = store
    /\ now = 1
    /\ timestamp = 0
    /\ maxKeys = MaxKeys
    /\ key = NoMarker
    /\ runLog = <<>>
    /\ changeLog = <<>>
    /\ prefix = <<>>
    /\ listedKeys = <<>>
    /\ keyCh = <<>>
    /\ errCh = <<>>
    /\ wkey = [w \in Workers |-> NoMarker]
    /\ result = "none"
    /\ StreamIdle

\* Replay is entered: nothing has run yet
ReplayEntry ==
    /\ RollbackIdle
    /\ WriterIdle
    /\ CmdIdle
    /\ concurrency = 0
    /\ mainPc = "replay"
    /\ wpc = [w \in Workers |-> "off"]
    /\ replayChanges = <<>>
    /\ eventCh = <<>>
    /\ fed = 0
    /\ feederPc = "off"
    /\ wevent = [w \in Workers |-> NoEvent]
    /\ keyMutexes = [k \in AllKeys |-> 0]
    /\ doneCh = <<>>
    /\ replayResult = EmptyResult(0)
    /\ destCalls = <<>>
    /\ returned = NoResult
    /\ wallClock = 1
    /\ startTime = 0
    /\ wmutex = [w \in Workers |-> 0]
    /\ locked = {}

\* a replay that ignores the time windows, run in one instant
InitReplay ==
    /\ ReplayEntry
    /\ sourceFile \in Logs
    /\ dryRun \in BOOLEAN
    \* the default pool is run on the logs of at most one change
    /\ optsConcurrency \in (IF Len(sourceFile) <= 1 THEN 0..MaxWorkers
                            ELSE 1..MaxWorkers)
    /\ ignoreTimeWindows = TRUE
    /\ optsStartTime = 0
    /\ speedFactor = <<1, 1>>

\* loadChangesFromFile returns an error: Replay returns it
LoadFails ==
    /\ mainPc = "replay"
    /\ mainPc' = "returned"
    /\ returned' = [Status |-> "ErrLoad"]
    /\ UNCHANGED <<sourceFile, dryRun, replayChanges, eventCh, fed, feederPc, wevent,
                   keyMutexes, doneCh, replayResult, destCalls>>
    /\ UNCHANGED <<optsConcurrency, concurrency, wpc>>
    /\ UNCHANGED rollbackVars
    /\ UNCHANGED timingVars
    /\ UNCHANGED writerVars
    /\ UNCHANGED cmdVars

\* the log is loaded and sorted by timestamp, the defaults are applied, the
\* workers, the feeding goroutine and the collecting goroutine are started
ReplayStart ==
    /\ mainPc = "replay"
    /\ replayChanges' = sortChanges(sourceFile, <<>>)
    /\ concurrency' = IF optsConcurrency <= 0 THEN DefaultConcurrency
                      ELSE optsConcurrency
    /\ replayResult' = EmptyResult(Len(sourceFile))
    /\ wpc' = [w \in Workers |-> IF w <= concurrency' THEN "take" ELSE "off"]
    /\ feederPc' = "send"
    /\ mainPc' = "waitWorkers"
    /\ UNCHANGED <<sourceFile, dryRun, eventCh, fed, wevent, keyMutexes, doneCh,
                   destCalls, returned>>
    /\ UNCHANGED optsConcurrency
    /\ UNCHANGED rollbackVars
    /\ startTime' = IF optsStartTime = 0 THEN wallClock ELSE optsStartTime
    /\ UNCHANGED <<wallClock, optsStartTime, speedFactor, ignoreTimeWindows, wmutex,
                   locked>>
    /\ UNCHANGED writerVars
    /\ UNCHANGED cmdVars

\* eventCh <- change (the channel holds up to concurrency changes)
FeederSend ==
    /\ feederPc = "send"
    /\ fed < Len(replayChanges)
    /\ Len(eventCh) < concurrency
    /\ eventCh' = Append(eventCh, replayChanges[fed + 1])
    /\ fed' = fed + 1
    /\ UNCHANGED <<sourceFile, dryRun, replayChanges, feederPc, wevent, keyMutexes,
                   doneCh, replayResult, destCalls, returned>>
    /\ UNCHANGED <<optsConcurrency, concurrency, mainPc, wpc>>
    /\ UNCHANGED rollbackVars
    /\ UNCHANGED timingVars
    /\ UNCHANGED writerVars
    /\ UNCHANGED cmdVars

\* mutant: the channel is closed as soon as its buffer is full
FeederClose_Early ==
    /\ feederPc = "send"
    /\ \/ fed = Len(replayChanges)
       \/ Len(eventCh) >= concurrency
    /\ feederPc' = "closed"
    /\ UNCHANGED <<sourceFile, dryRun, replayChanges, eventCh, fed, wevent,
                   keyMutexes, doneCh, replayResult, destCalls, returned>>
    /\ UNCHANGED <<optsConcurrency, concurrency, mainPc, wpc>>
    /\ UNCHANGED rollbackVars
    /\ UNCHANGED timingVars
    /\ UNCHANGED writerVars
    /\ UNCHANGED cmdVars

\* close(eventCh) after the last change
FeederClose ==
    /\ feederPc = "send"
    /\ fed = Len(replayChanges)
    /\ feederPc' = "closed"
    /\ UNCHANGED <<sourceFile, dryRun, replayChanges, eventCh, fed, wevent,
                   keyMutexes, doneCh, replayResult, destCalls, returned>>
    /\ UNCHANGED <<optsConcurrency, concurrency, mainPc, wpc>>
    /\ UNCHANGED rollbackVars
    /\ UNCHANGED timingVars
    /\ UNCHANGED writerVars
    /\ UNCHANGED cmdVars

\* the speed factor in use: a factor <= 0 is replaced by 1.0
effectiveSpeed(sf) == IF sf[1] <= 0 THEN <<1, 1>> ELSE sf

\* mutant: the relative time is multiplied by the speed factor
adjustedTime_Multiplied(relativeTime, sf) == (relativeTime * sf[1]) \div sf[2]

\* time.Duration(float64(relativeTime) / speedFactor): the quotient is cut to
\* a whole number of clock units
adjustedTime(relativeTime, sf) == (relativeTime * sf[2]) \div sf[1]

\* the instant a change is scheduled at
scheduledAt(change) ==
    IF ignoreTimeWindows THEN wallClock
    ELSE startTime + adjustedTime(change.Timestamp - replayChanges[1].Timestamp,
                                  effectiveSpeed(speedFactor))

\* mutant: the worker stores its own mutex whatever the map holds
WorkerTake_StoreOwn(w) ==
    /\ IsFirstAt(w, "take")
    /\ eventCh # <<>>
    /\ LET change == Head(eventCh)
           mine == fed - Len(eventCh) + 1
       IN /\ wevent' = [wevent EXCEPT ![w] = [Change |-> change, Status |-> "",
                                              ErrorMessage |-> "nil",
                                              ScheduledAt |-> scheduledAt(change),
                                              ExecutedAt |-> 0]]
          /\ keyMutexes' = [keyMutexes EXCEPT ![change.Key] = mine]
          /\ wmutex' = [wmutex EXCEPT ![w] = mine]
          /\ wpc' = [wpc EXCEPT ![w] =
                        IF Before(wallClock, scheduledAt(change)) /\ ~ignoreTimeWindows
                        THEN "wait" ELSE "lock"]
    /\ eventCh' = Tail(eventCh)
    /\ UNCHANGED <<sourceFile, dryRun, replayChanges, fed, feederPc, doneCh,
                   replayResult, destCalls, returned>>
    /\ UNCHANGED <<optsConcurrency, concurrency, mainPc>>
    /\ UNCHANGED rollbackVars
    /\ UNCHANGED writerVars
    /\ UNCHANGED cmdVars
    /\ UNCHANGED <<wallClock, optsStartTime, startTime, speedFactor, ignoreTimeWindows,
                   locked>>

\* for change := range eventCh: a change is received; keyMutexes.LoadOrStore
\* returns the mutex stored for the key, or stores the worker's new mutex
\* (the n-th change received brings mutex n); scheduledAt is computed, and
\* the worker sleeps if that instant is still to come
WorkerTake(w) ==
    /\ IsFirstAt(w, "take")
    /\ eventCh # <<>>
    /\ LET change == Head(eventCh)
           mine == fed - Len(eventCh) + 1
           mutex == IF keyMutexes[change.Key] = 0 THEN mine
                    ELSE keyMutexes[change.Key]
       IN /\ wevent' = [wevent EXCEPT ![w] = [Change |-> change, Status |-> "",
                                              ErrorMessage |-> "nil",
                                              ScheduledAt |-> scheduledAt(change),
                                              ExecutedAt |-> 0]]
          /\ keyMutexes' = [keyMutexes EXCEPT ![change.Key] = mutex]
          /\ wmutex' = [wmutex EXCEPT ![w] = mutex]
          /\ wpc' = [wpc EXCEPT ![w] =
                        IF Before(wallClock, scheduledAt(change)) /\ ~ignoreTimeWindows
                        THEN "wait" ELSE "lock"]
    /\ eventCh' = Tail(eventCh)
    /\ UNCHANGED <<sourceFile, dryRun, replayChanges, fed, feederPc, doneCh,
                   replayResult, destCalls, returned>>
    /\ UNCHANGED <<optsConcurrency, concurrency, mainPc>>
    /\ UNCHANGED rollbackVars
    /\ UNCHANGED writerVars
    /\ UNCHANGED cmdVars
    /\ UNCHANGED <<wallClock, optsStartTime, startTime, speedFactor, ignoreTimeWindows,
                   locked>>

\* mutant: the sleep ends at any instant
WorkerWake_Early(w) ==
    /\ wpc[w] = "wait"
    /\ wpc' = [wpc EXCEPT ![w] = "lock"]
    /\ UNCHANGED replayVars
    /\ UNCHANGED <<optsConcurrency, concurrency, mainPc>>
    /\ UNCHANGED rollbackVars
    /\ UNCHANGED writerVars
    /\ UNCHANGED cmdVars
    /\ UNCHANGED timingVars

\* time.Sleep(scheduledAt.Sub(time.Now())) is over
WorkerWake(w) ==
    /\ wpc[w] = "wait"
    /\ ~Before(wallClock, wevent[w].ScheduledAt)
    /\ wpc' = [wpc EXCEPT ![w] = "lock"]
    /\ UNCHANGED replayVars
    /\ UNCHANGED <<optsConcurrency, concurrency, mainPc>>
    /\ UNCHANGED rollbackVars
    /\ UNCHANGED writerVars
    /\ UNCHANGED cmdVars
    /\ UNCHANGED timingVars

\* time passes (after MaxClock, only up to the instant a worker sleeps to);
\* the clock is read when a change is received, when a sleep ends and when a
\* mutex is acquired: a tick while a worker executes, unlocks or reports is
\* the same as a tick after that step
ClockTick ==
    /\ mainPc \in {"replay", "waitWorkers"}
    /\ \A w \in Workers : wpc[w] \notin {"exec", "unlock", "report"}
    /\ \/ wallClock < MaxClock
       \/ \E w \in Workers : wpc[w] = "wait" /\ Before(wallClock, wevent[w].ScheduledAt)
    /\ wallClock' = wallClock + 1
    /\ UNCHANGED replayVars
    /\ UNCHANGED <<optsConcurrency, concurrency, mainPc, wpc>>
    /\ UNCHANGED rollbackVars
    /\ UNCHANGED writerVars
    /\ UNCHANGED cmdVars
    /\ UNCHANGED <<optsStartTime, startTime, speedFactor, ignoreTimeWindows,
                   wmutex, locked>>

\* for change := range eventCh: the channel is closed and empty, wg.Done
WorkerExit(w) ==
    /\ IsFirstAt(w, "take")
    /\ eventCh = <<>>
    /\ feederPc = "closed"
    /\ wpc' = [wpc EXCEPT ![w] = "done"]
    /\ UNCHANGED replayVars
    /\ UNCHANGED <<optsConcurrency, concurrency, mainPc>>
    /\ UNCHANGED rollbackVars
    /\ UNCHANGED timingVars
    /\ UNCHANGED writerVars
    /\ UNCHANGED cmdVars

\* mutex.Lock() on the mutex the worker got; the event is created with
\* ExecutedAt = time.Now()
WorkerLock(w) ==
    /\ wpc[w] = "lock"
    /\ wmutex[w] \notin locked
    /\ locked' = locked \cup {wmutex[w]}
    /\ wevent' = [wevent EXCEPT ![w].ExecutedAt = wallClock]
    /\ wpc' = [wpc EXCEPT ![w] = "exec"]
    /\ UNCHANGED <<sourceFile, dryRun, replayChanges, eventCh, fed, feederPc,
                   keyMutexes, doneCh, replayResult, destCalls, returned>>
    /\ UNCHANGED <<optsConcurrency, concurrency, mainPc>>
    /\ UNCHANGED rollbackVars
    /\ UNCHANGED writerVars
    /\ UNCHANGED cmdVars
    /\ UNCHANGED <<wallClock, optsStartTime, startTime, speedFactor, ignoreTimeWindows,
                   wmutex>>

\* executeChange unless opts.DryRun; the event gets its status
WorkerExecute(w) ==
    /\ wpc[w] = "exec"
    /\ \E fault \in {"none", "mutation"} :
          LET r == executeChange(wevent[w].Change, fault)
          IN IF dryRun
             THEN /\ wevent' = [wevent EXCEPT ![w].Status = "DRYRUN"]
                  /\ destCalls' = destCalls
             ELSE /\ wevent' = [wevent EXCEPT
                                   ![w].Status = IF r.err # "nil" THEN "FAILED"
                                                 ELSE "SUCCESS",
                                   ![w].ErrorMessage = r.err]
                  /\ destCalls' = destCalls \o r.calls
    /\ wpc' = [wpc EXCEPT ![w] = "unlock"]
    /\ UNCHANGED <<sourceFile, dryRun, replayChanges, eventCh, fed, feederPc,
                   keyMutexes, doneCh, replayResult, returned>>
    /\ UNCHANGED <<optsConcurrency, concurrency, mainPc>>
    /\ UNCHANGED rollbackVars
    /\ UNCHANGED timingVars
    /\ UNCHANGED writerVars
    /\ UNCHANGED cmdVars

\* mutex.Unlock()
WorkerUnlock(w) ==
    /\ wpc[w] = "unlock"
    /\ locked' = locked \ {wmutex[w]}
    /\ wpc' = [wpc EXCEPT ![w] = "report"]
    /\ UNCHANGED <<sourceFile, dryRun, replayChanges, eventCh, fed, feederPc, wevent,
                   keyMutexes, doneCh, replayResult, destCalls, returned>>
    /\ UNCHANGED <<optsConcurrency, concurrency, mainPc>>
    /\ UNCHANGED rollbackVars
    /\ UNCHANGED writerVars
    /\ UNCHANGED cmdVars
    /\ UNCHANGED <<wallClock, optsStartTime, startTime, speedFactor, ignoreTimeWindows,
                   wmutex>>

\* doneCh <- event (the channel holds len(changes) events: never full)
WorkerReport(w) ==
    /\ wpc[w] = "report"
    /\ doneCh' = Append(doneCh, wevent[w])
    /\ wevent' = [wevent EXCEPT ![w] = NoEvent]
    /\ wpc' = [wpc EXCEPT ![w] = "take"]
    /\ UNCHANGED <<sourceFile, dryRun, replayChanges, eventCh, fed, feederPc,
                   keyMutexes, replayResult, destCalls, returned>>
    /\ UNCHANGED <<optsConcurrency, concurrency, mainPc>>
    /\ UNCHANGED rollbackVars
    /\ UNCHANGED timingVars
    /\ UNCHANGED writerVars
    /\ UNCHANGED cmdVars

\* the collecting goroutine receives an event and counts it
Collect ==
    /\ feederPc # "off"
    /\ Len(replayResult.Events) < Len(replayChanges)
    /\ doneCh # <<>>
    /\ LET event == Head(doneCh)
       IN replayResult' =
             [replayResult EXCEPT
                 !.SuccessEvents = @ + (IF event.Status = "SUCCESS" THEN 1 ELSE 0),
                 !.FailedEvents = @ + (IF event.Status = "FAILED" THEN 1 ELSE 0),
                 !.SkippedEvents = @ + (IF event.Status = "DRYRUN" THEN 1 ELSE 0),
                 !.Events = Append(@, event)]
    /\ doneCh' = Tail(doneCh)
    /\ UNCHANGED <<sourceFile, dryRun, replayChanges, eventCh, fed, feederPc, wevent,
                   keyMutexes, destCalls, returned>>
    /\ UNCHANGED <<optsConcurrency, concurrency, mainPc, wpc>>
    /\ UNCHANGED rollbackVars
    /\ UNCHANGED timingVars
    /\ UNCHANGED writerVars
    /\ UNCHANGED cmdVars

\* wg.Wait() is over: Replay returns the result
ReplayReturn ==
    /\ mainPc = "waitWorkers"
    /\ \A w \in Workers : wpc[w] \in {"off", "done"}
    /\ returned' = replayResult
    /\ mainPc' = "returned"
    /\ UNCHANGED <<sourceFile, dryRun, replayChanges, eventCh, fed, feederPc, wevent,
                   keyMutexes, doneCh, replayResult, destCalls>>
    /\ UNCHANGED <<optsConcurrency, concurrency, wpc>>
    /\ UNCHANGED rollbackVars
    /\ UNCHANGED timingVars
    /\ UNCHANGED writerVars
    /\ UNCHANGED cmdVars

NextReplay ==
    \/ LoadFails
    \/ ReplayStart
    \/ FeederSend
    \/ FeederClose
    \/ \E w \in Workers : WorkerTake(w)
    \/ \E w \in Workers : WorkerExit(w)
    \/ \E w \in Workers : WorkerLock(w)
    \/ \E w \in Workers : WorkerExecute(w)
    \/ \E w \in Workers : WorkerUnlock(w)
    \/ \E w \in Workers : WorkerReport(w)
    \/ Collect
    \/ ReplayReturn

SpecReplay == InitReplay /\ [][NextReplay]_vars

\* Replay under the Go scheduler: a goroutine that can run is run, so the
\* replay does not stop while one of its goroutines has a step to take
SpecReplayFair == InitReplay /\ [][NextReplay]_vars /\ WF_vars(NextReplay)

\* -------------------------------------------------------- timed replay
\* Replay with its clock: the changes are scheduled from their timestamps,
\* the start time and the speed factor, unless the time windows are ignored.
SpeedFactors == {<<0, 1>>, <<2, 1>>}
StartTimes == {0, 2}

\* the logs of a timed replay: updates of one or two keys in timestamp order,
\* each with a version id of its own
TimedLogs ==
    UNION {{[i \in 1..n |-> Change(f[i].k, 10 + i, "UPDATE", f[i].ts, NoVersion)] :
              f \in {g \in [1..n -> [k : ChangeKeys, ts : 1..(MaxLogTime + 1)]] :
                        /\ n > 0 => g[1].k = K1
                        /\ \A i \in 1..(n - 1) : g[i].ts <= g[i + 1].ts}}
           : n \in 0..MaxTimedLog}

InitTiming ==
    /\ ReplayEntry
    /\ sourceFile \in TimedLogs
    \* the schedule does not depend on what executeChange does: the store is
    \* called for the logs of at most one change, longer logs are dry runs
    /\ dryRun \in (IF Len(sourceFile) <= 1 THEN BOOLEAN ELSE {TRUE})
    /\ optsConcurrency \in 1..MaxWorkers
    /\ ignoreTimeWindows \in BOOLEAN
    \* the start time and the speed factor are not read when the time windows
    \* are ignored
    /\ optsStartTime \in (IF ignoreTimeWindows THEN {0} ELSE StartTimes)
    /\ speedFactor \in (IF ignoreTimeWindows THEN {<<0, 1>>} ELSE SpeedFactors)

NextTiming ==
    \/ NextReplay
    \/ \E w \in Workers : WorkerWake(w)
    \/ ClockTick

SpecTiming == InitTiming /\ [][NextTiming]_vars

\* ============================================ enumeration specification
\* ProcessChangesStreaming(opts, callback) on a store whose listings are cut
\* into pages of PageSize entries.
replayListIdle == <<now, key, runLog, store0, store, timestamp, maxKeys, prefix,
                    optsConcurrency>>

\* listAllKeys: the pages of ListObjectsV2 are read to the last one
listAllKeys(st, pfx) == ListObjectsV2(st, pfx, Cardinality(AllKeys)).Contents

InitStream ==
    /\ \E n1 \in 0..MaxEvents, n2 \in 0..MaxEvents, n3 \in 0..MaxEvents :
          /\ n1 + n2 + n3 <= MaxEvents
          /\ \E h1 \in HistoriesOfLen(n1), h2 \in HistoriesOfLen(n2),
                h3 \in HistoriesOfLen(n3) :
                store = (K1 :> MakeHistory(h1)) @@ (K2 :> MakeHistory(h2))
                        @@ (K3 :> MakeHistory(h3))
    /\ store0 = store
    /\ timestamp \in 2..MaxTime
    /\ now = MaxTime + 1
    /\ maxKeys = PageSize
    /\ prefix = <<>>
    \* the default pool is run on the stores of at most one event
    /\ optsConcurrency \in (IF Len(store[K1]) + Len(store[K2]) + Len(store[K3]) <= 1
                            THEN 0..MaxWorkers ELSE 1..MaxWorkers)
    /\ batchSize \in 0..MaxBatch
    /\ concurrency = 0
    /\ mainPc = "stream"
    /\ key = NoMarker
    /\ runLog = <<>>
    /\ changeLog = <<>>
    /\ listedKeys = <<>>
    /\ keyCh = <<>>
    /\ errCh = <<>>
    /\ wpc = [w \in Workers |-> "off"]
    /\ wkey = [w \in Workers |-> NoMarker]
    /\ result = "none"
    /\ fedKeys = 0
    /\ closedChs = {}
    /\ resultCh = <<>>
    /\ wchanges = [w \in Workers |-> <<>>]
    /\ batch = <<>>
    /\ callbacks = <<>>
    /\ ReplayIdle
    /\ CmdIdle
    /\ WriterIdle

\* errCh has room for one error; a send that finds it full is dropped
TrySendErr(ch, err) == IF Len(ch) < 1 THEN Append(ch, err) ELSE ch

\* listAllKeys returns an error: the call returns it
ListAllKeysFails ==
    /\ mainPc = "stream"
    /\ mainPc' = "returned"
    /\ result' = "ErrListKeys"
    /\ UNCHANGED <<concurrency, changeLog, listedKeys, keyCh, errCh, wpc, wkey>>
    /\ UNCHANGED streamVars
    /\ UNCHANGED replayListIdle
    /\ UNCHANGED replayVars
    /\ UNCHANGED timingVars
    /\ UNCHANGED writerVars
    /\ UNCHANGED cmdVars

\* the defaults are applied, the keys are listed, the workers and the
\* collecting goroutine are started
StreamStart ==
    /\ mainPc = "stream"
    /\ concurrency' = IF optsConcurrency <= 0 THEN DefaultConcurrency
                      ELSE optsConcurrency
    /\ batchSize' = IF batchSize <= 0 THEN DefaultBatchSize ELSE batchSize
    /\ listedKeys' = listAllKeys(store, prefix)
    /\ wpc' = [w \in Workers |-> IF w <= concurrency' THEN "pull" ELSE "off"]
    /\ mainPc' = "feed"
    /\ UNCHANGED <<changeLog, keyCh, errCh, wkey, result>>
    /\ UNCHANGED <<fedKeys, closedChs, resultCh, wchanges, batch, callbacks>>
    /\ UNCHANGED replayListIdle
    /\ UNCHANGED replayVars
    /\ UNCHANGED timingVars
    /\ UNCHANGED writerVars
    /\ UNCHANGED cmdVars

\* select: keyCh <- key (the channel holds up to concurrency keys)
FeedKey ==
    /\ mainPc = "feed"
    /\ fedKeys < Len(listedKeys)
    /\ Len(keyCh) < concurrency
    /\ keyCh' = Append(keyCh, listedKeys[fedKeys + 1])
    /\ fedKeys' = fedKeys + 1
    /\ UNCHANGED <<concurrency, mainPc, changeLog, listedKeys, errCh, wpc, wkey,
                   result>>
    /\ UNCHANGED <<batchSize, closedChs, resultCh, wchanges, batch, callbacks>>
    /\ UNCHANGED replayListIdle
    /\ UNCHANGED replayVars
    /\ UNCHANGED timingVars
    /\ UNCHANGED writerVars
    /\ UNCHANGED cmdVars

\* select: err := <-errCh; close(keyCh); return err
FeedAbort ==
    /\ mainPc = "feed"
    /\ fedKeys < Len(listedKeys)
    /\ errCh # <<>>
    /\ result' = Head(errCh)
    /\ errCh' = Tail(errCh)
    /\ closedChs' = closedChs \cup {"keyCh"}
    /\ mainPc' = "returned"
    /\ UNCHANGED <<concurrency, changeLog, listedKeys, keyCh, wpc, wkey>>
    /\ UNCHANGED <<batchSize, fedKeys, resultCh, wchanges, batch, callbacks>>
    /\ UNCHANGED replayListIdle
    /\ UNCHANGED replayVars
    /\ UNCHANGED timingVars
    /\ UNCHANGED writerVars
    /\ UNCHANGED cmdVars

\* every key has been sent: close(keyCh), then wg.Wait()
FeedClose ==
    /\ mainPc = "feed"
    /\ fedKeys = Len(listedKeys)
    /\ closedChs' = closedChs \cup {"keyCh"}
    /\ mainPc' = "wgWait"
    /\ UNCHANGED <<concurrency, changeLog, listedKeys, keyCh, errCh, wpc, wkey,
                   result>>
    /\ UNCHANGED <<batchSize, fedKeys, resultCh, wchanges, batch, callbacks>>
    /\ UNCHANGED replayListIdle
    /\ UNCHANGED replayVars
    /\ UNCHANGED timingVars
    /\ UNCHANGED writerVars
    /\ UNCHANGED cmdVars

\* mutant: a worker that fails on a key returns without sending the error
WorkerEnumerate_SilentExit(w) ==
    /\ IsFirstAt(w, "pull")
    /\ keyCh # <<>>
    /\ keyCh' = Tail(keyCh)
    /\ wkey' = [wkey EXCEPT ![w] = Head(keyCh)]
    /\ \E fault \in {"none", "list"} :
          LET r == getChangesForKey(store, Head(keyCh), timestamp, fault, maxKeys)
          IN /\ changeLog' = Append(changeLog,
                                    [key |-> Head(keyCh), hist |-> store[Head(keyCh)],
                                     changes |-> r.changes, err |-> r.err,
                                     fault |-> fault])
             /\ errCh' = errCh
             /\ wchanges' = [wchanges EXCEPT ![w] = r.changes]
             /\ wpc' = [wpc EXCEPT ![w] = IF r.err # "nil" THEN "done"
                                          ELSE IF Len(r.changes) > 0 THEN "emit"
                                          ELSE "pull"]
    /\ UNCHANGED <<concurrency, mainPc, listedKeys, result>>
    /\ UNCHANGED <<batchSize, fedKeys, closedChs, resultCh, batch, callbacks>>
    /\ UNCHANGED replayListIdle
    /\ UNCHANGED replayVars
    /\ UNCHANGED timingVars
    /\ UNCHANGED writerVars
    /\ UNCHANGED cmdVars

\* for key := range keyCh: a key is received and getChangesForKey is called;
\* on an error the worker tries to send it and returns
WorkerEnumerate(w) ==
    /\ IsFirstAt(w, "pull")
    /\ keyCh # <<>>
    /\ keyCh' = Tail(keyCh)
    /\ wkey' = [wkey EXCEPT ![w] = Head(keyCh)]
    /\ \E fault \in {"none", "list"} :
          LET r == getChangesForKey(store, Head(keyCh), timestamp, fault, maxKeys)
          IN /\ changeLog' = Append(changeLog,
                                    [key |-> Head(keyCh), hist |-> store[Head(keyCh)],
                                     changes |-> r.changes, err |-> r.err,
                                     fault |-> fault])
             /\ errCh' = IF r.err # "nil" THEN TrySendErr(errCh, r.err) ELSE errCh
             /\ wchanges' = [wchanges EXCEPT ![w] = r.changes]
             /\ wpc' = [wpc EXCEPT ![w] = IF r.err # "nil" THEN "done"
                                          ELSE IF Len(r.changes) > 0 THEN "emit"
                                          ELSE "pull"]
    /\ UNCHANGED <<concurrency, mainPc, listedKeys, result>>
    /\ UNCHANGED <<batchSize, fedKeys, closedChs, resultCh, batch, callbacks>>
    /\ UNCHANGED replayListIdle
    /\ UNCHANGED replayVars
    /\ UNCHANGED timingVars
    /\ UNCHANGED writerVars
    /\ UNCHANGED cmdVars

\* resultCh <- changes (the channel holds up to concurrency lists)
WorkerEmit(w) ==
    /\ wpc[w] = "emit"
    /\ Len(resultCh) < concurrency
    /\ resultCh' = Append(resultCh, wchanges[w])
    /\ wchanges' = [wchanges EXCEPT ![w] = <<>>]
    /\ wpc' = [wpc EXCEPT ![w] = "pull"]
    /\ UNCHANGED <<concurrency, mainPc, changeLog, listedKeys, keyCh, errCh, wkey,
                   result>>
    /\ UNCHANGED <<batchSize, fedKeys, closedChs, batch, callbacks>>
    /\ UNCHANGED replayListIdle
    /\ UNCHANGED replayVars
    /\ UNCHANGED timingVars
    /\ UNCHANGED writerVars
    /\ UNCHANGED cmdVars

\* for key := range keyCh: the channel is closed and empty, wg.Done
WorkerLeave(w) ==
    /\ IsFirstAt(w, "pull")
    /\ keyCh = <<>>
    /\ "keyCh" \in closedChs
    /\ wpc' = [wpc EXCEPT ![w] = "done"]
    /\ UNCHANGED <<concurrency, mainPc, changeLog, listedKeys, keyCh, errCh, wkey,
                   result>>
    /\ UNCHANGED streamVars
    /\ UNCHANGED replayListIdle
    /\ UNCHANGED replayVars
    /\ UNCHANGED timingVars
    /\ UNCHANGED writerVars
    /\ UNCHANGED cmdVars

\* the collecting goroutine receives a change list; a batch that has reached
\* the batch size is sorted by timestamp and passed to the callback
CollectChanges ==
    /\ "doneCh" \notin closedChs
    /\ resultCh # <<>>
    /\ resultCh' = Tail(resultCh)
    /\ LET grown == batch \o Head(resultCh)
       IN IF Len(grown) >= batchSize
          THEN \E cbErr \in {"nil", "ErrCallback"} :
                  /\ callbacks' = Append(callbacks,
                                         [batch |-> sortChanges(grown, <<>>),
                                          err |-> cbErr])
                  /\ errCh' = IF cbErr # "nil" THEN TrySendErr(errCh, cbErr)
                              ELSE errCh
                  /\ batch' = <<>>
          ELSE /\ batch' = grown
               /\ UNCHANGED <<callbacks, errCh>>
    /\ UNCHANGED <<concurrency, mainPc, changeLog, listedKeys, keyCh, wpc, wkey,
                   result>>
    /\ UNCHANGED <<batchSize, fedKeys, closedChs, wchanges>>
    /\ UNCHANGED replayListIdle
    /\ UNCHANGED replayVars
    /\ UNCHANGED timingVars
    /\ UNCHANGED writerVars
    /\ UNCHANGED cmdVars

\* resultCh is closed and empty: the rest of the batch is sorted and passed
\* to the callback, close(doneCh)
CollectRest ==
    /\ "resultCh" \in closedChs
    /\ "doneCh" \notin closedChs
    /\ resultCh = <<>>
    /\ IF Len(batch) > 0
       THEN \E cbErr \in {"nil", "ErrCallback"} :
               /\ callbacks' = Append(callbacks,
                                      [batch |-> sortChanges(batch, <<>>),
                                       err |-> cbErr])
               /\ errCh' = IF cbErr # "nil" THEN TrySendErr(errCh, cbErr)
                           ELSE errCh
       ELSE UNCHANGED <<callbacks, errCh>>
    /\ closedChs' = closedChs \cup {"doneCh"}
    /\ UNCHANGED <<concurrency, mainPc, changeLog, listedKeys, keyCh, wpc, wkey,
                   result>>
    /\ UNCHANGED <<batchSize, fedKeys, resultCh, wchanges, batch>>
    /\ UNCHANGED replayListIdle
    /\ UNCHANGED replayVars
    /\ UNCHANGED timingVars
    /\ UNCHANGED writerVars
    /\ UNCHANGED cmdVars

\* wg.Wait() is over: close(resultCh)
CloseResultCh ==
    /\ mainPc = "wgWait"
    /\ \A w \in Workers : wpc[w] \in {"off", "done"}
    /\ closedChs' = closedChs \cup {"resultCh"}
    /\ mainPc' = "waitDone"
    /\ UNCHANGED <<concurrency, changeLog, listedKeys, keyCh, errCh, wpc, wkey,
                   result>>
    /\ UNCHANGED <<batchSize, fedKeys, resultCh, wchanges, batch, callbacks>>
    /\ UNCHANGED replayListIdle
    /\ UNCHANGED replayVars
    /\ UNCHANGED timingVars
    /\ UNCHANGED writerVars
    /\ UNCHANGED cmdVars

\* mutant: the final look at errCh is left out
ReturnAfterDone_NoFinalSelect ==
    /\ mainPc = "waitDone"
    /\ "doneCh" \in closedChs
    /\ result' = "nil"
    /\ mainPc' = "returned"
    /\ UNCHANGED <<concurrency, changeLog, listedKeys, keyCh, errCh, wpc, wkey>>
    /\ UNCHANGED streamVars
    /\ UNCHANGED replayListIdle
    /\ UNCHANGED replayVars
    /\ UNCHANGED timingVars
    /\ UNCHANGED writerVars
    /\ UNCHANGED cmdVars

\* select: <-doneCh; then the error left in errCh, if any, is returned
ReturnAfterDone ==
    /\ mainPc = "waitDone"
    /\ "doneCh" \in closedChs
    /\ result' = IF errCh # <<>> THEN Head(errCh) ELSE "nil"
    /\ errCh' = IF errCh # <<>> THEN Tail(errCh) ELSE errCh
    /\ mainPc' = "returned"
    /\ UNCHANGED <<concurrency, changeLog, listedKeys, keyCh, wpc, wkey>>
    /\ UNCHANGED streamVars
    /\ UNCHANGED replayListIdle
    /\ UNCHANGED replayVars
    /\ UNCHANGED timingVars
    /\ UNCHANGED writerVars
    /\ UNCHANGED cmdVars

\* select: err := <-errCh; return err
ReturnErr ==
    /\ mainPc = "waitDone"
    /\ errCh # <<>>
    /\ result' = Head(errCh)
    /\ errCh' = Tail(errCh)
    /\ mainPc' = "returned"
    /\ UNCHANGED <<concurrency, changeLog, listedKeys, keyCh, wpc, wkey>>
    /\ UNCHANGED streamVars
    /\ UNCHANGED replayListIdle
    /\ UNCHANGED replayVars
    /\ UNCHANGED timingVars
    /\ UNCHANGED writerVars
    /\ UNCHANGED cmdVars

NextStream ==
    \/ ListAllKeysFails
    \/ StreamStart
    \/ FeedKey
    \/ FeedAbort
    \/ FeedClose
    \/ \E w \in Workers : WorkerEnumerate(w)
    \/ \E w \in Workers : WorkerEmit(w)
    \/ \E w \in Workers : WorkerLeave(w)
    \/ CollectChanges
    \/ CollectRest
    \/ CloseResultCh
    \/ ReturnAfterDone
    \/ ReturnErr

SpecStream == InitStream /\ [][NextStream]_vars

\* ProcessChangesStreaming under the Go scheduler: a goroutine that can run is
\* run, so the call does not stop while one of its goroutines has a step to
\* take
SpecStreamFair == InitStream /\ [][NextStream]_vars /\ WF_vars(NextStream)

\* ============================================= change-log specification
\* A FileChangesWriter is created, goroutines call WriteChanges on it, it is
\* closed, and loadChangesFromFile reads the file back.
writerIdleVars == <<rollbackVars, replayVars, timingVars, cmdVars, optsConcurrency,
                    concurrency, mainPc, wpc>>

\* the writes of the writer, as the tokens a JSON decoder sees in them
ArrayOpen == <<[t |-> "["]>>         \* "[\n"
Separator == <<[t |-> ","]>>         \* ",\n"
Indent == <<[t |-> "ws"]>>           \* "  "
ArrayClose == <<[t |-> "]"]>>        \* "\n]\n"

OmitEmpty(name, value, zero) ==
    IF value = zero THEN [x \in {} |-> zero] ELSE name :> value

\* json.Marshal(change): size, etag and previousVersionId are omitempty
Marshal(change) ==
    [key |-> change.Key, versionId |-> change.VersionID,
     changeType |-> change.ChangeType, timestamp |-> change.Timestamp,
     isDeleteMarker |-> change.IsDeleteMarker]
    @@ OmitEmpty("size", change.Size, 0)
    @@ OmitEmpty("etag", change.ETag, "")
    @@ OmitEmpty("previousVersionId", change.PreviousVersionID, NoVersion)

Member(obj, name, zero) == IF name \in DOMAIN obj THEN obj[name] ELSE zero

\* decoding of one JSON object into a zero ObjectChange
Unmarshal(obj) ==
    [Key |-> Member(obj, "key", <<>>),
     VersionID |-> Member(obj, "versionId", NoVersion),
     ChangeType |-> Member(obj, "changeType", ""),
     Timestamp |-> Member(obj, "timestamp", 0),
     Size |-> Member(obj, "size", 0),
     ETag |-> Member(obj, "etag", ""),
     IsDeleteMarker |-> Member(obj, "isDeleteMarker", FALSE),
     PreviousVersionID |-> Member(obj, "previousVersionId", NoVersion)]

\* decoder.Decode(&changes) after the opening bracket: values separated by
\* commas up to the closing bracket; what follows the array is not read
RECURSIVE decodeElements(_, _, _)
decodeElements(toks, acc, want) ==
    IF Len(toks) = 0 THEN [changes |-> <<>>, err |-> "ErrDecode"]
    ELSE LET tok == Head(toks)
         IN CASE tok.t = "]" /\ (want = "sep" \/ Len(acc) = 0) ->
                    [changes |-> acc, err |-> "nil"]
              [] tok.t = "obj" /\ want = "value" ->
                    decodeElements(Tail(toks), Append(acc, Unmarshal(tok.v)), "sep")
              [] tok.t = "," /\ want = "sep" ->
                    decodeElements(Tail(toks), acc, "value")
              [] OTHER -> [changes |-> <<>>, err |-> "ErrDecode"]

loadChangesFromFile(f) ==
    LET toks == SelectSeq(f, LAMBDA tok : tok.t # "ws")
    IN IF Len(toks) = 0 \/ Head(toks).t # "["
       THEN [changes |-> <<>>, err |-> "ErrDecode"]
       ELSE decodeElements(Tail(toks), <<>>, "value")

\* the changes a caller writes: with and without size, etag, predecessor
Shapes ==
    {[Key |-> K1, ChangeType |-> "CREATE", Timestamp |-> 1, Size |-> 5,
      ETag |-> "e1", IsDeleteMarker |-> FALSE, PreviousVersionID |-> NoVersion],
     [Key |-> K1, ChangeType |-> "DELETE", Timestamp |-> 2, Size |-> 0,
      ETag |-> "", IsDeleteMarker |-> TRUE, PreviousVersionID |-> NoVersion],
     [Key |-> K3, ChangeType |-> "UNDELETE", Timestamp |-> 1, Size |-> 0,
      ETag |-> "e2", IsDeleteMarker |-> FALSE, PreviousVersionID |-> 1]}

\* the i-th change of a list has a version id of its own
WrittenChange(i, shape) ==
    [Key |-> shape.Key, VersionID |-> 20 + i, ChangeType |-> shape.ChangeType,
     Timestamp |-> shape.Timestamp, Size |-> shape.Size, ETag |-> shape.ETag,
     IsDeleteMarker |-> shape.IsDeleteMarker,
     PreviousVersionID |-> shape.PreviousVersionID]

\* the ways to cut a list of n changes into consecutive batches: the batch
\* number of each change
Splits(n) ==
    {seg \in [1..n -> 1..n] :
        /\ n > 0 => seg[1] = 1
        /\ \A i \in 1..(n - 1) : seg[i + 1] \in {seg[i], seg[i] + 1}}

BatchOf(list, seg, b) ==
    LET idx == {i \in 1..Len(list) : seg[i] = b}
    IN SubSeq(list, CHOOSE i \in idx : \A j \in idx : i <= j,
                    CHOOSE i \in idx : \A j \in idx : j <= i)

\* the batches of caller c, in the order of the list
BatchesOf(list, seg, own, c) ==
    LET nb == IF Len(list) = 0 THEN 0 ELSE seg[Len(list)]
        mine == SelectSeq([b \in 1..nb |-> b], LAMBDA b : own[b] = c)
    IN [n \in 1..Len(mine) |-> BatchOf(list, seg, mine[n])]

InitWriter ==
    /\ RollbackIdle
    /\ ReplayIdle
    /\ CmdIdle
    /\ optsConcurrency = 0
    /\ concurrency = 0
    /\ mainPc = "off"
    /\ wpc = [w \in Workers |-> "off"]
    /\ \E n \in 0..MaxWrite :
          \E shapes \in [1..n -> Shapes], seg \in Splits(n), lead \in BOOLEAN :
             LET list == [i \in 1..n |-> WrittenChange(i, shapes[i])]
                 nb == IF n = 0 THEN 0 ELSE seg[n]
             IN \E own \in [1..nb -> Callers] :
                   /\ nb > 0 => own[1] = 1
                   \* caller 1 may start with a call on an empty list
                   /\ plan = [c \in Callers |->
                                (IF lead /\ c = 1 THEN <<<<>>>> ELSE <<>>)
                                \o BatchesOf(list, seg, own, c)]
    /\ file = <<>>
    /\ first = FALSE
    /\ mu = 0
    /\ writerPc = "create"
    /\ cpc = [c \in Callers |-> "off"]
    /\ cb = [c \in Callers |-> 0]
    /\ ci = [c \in Callers |-> 0]
    /\ loaded = [Status |-> "NONE"]

\* NewFileChangesWriter: the file is created and the array is opened
NewFileChangesWriter ==
    /\ writerPc = "create"
    /\ file' = ArrayOpen
    /\ first' = TRUE
    /\ writerPc' = "open"
    /\ cpc' = [c \in Callers |-> "call"]
    /\ UNCHANGED <<mu, plan, cb, ci, loaded>>
    /\ UNCHANGED writerIdleVars

\* mutant: WriteChanges does not take the lock
WriteLock_NoMutex(c) ==
    /\ cpc[c] = "call"
    /\ cb[c] < Len(plan[c])
    /\ mu' = c
    /\ cb' = [cb EXCEPT ![c] = @ + 1]
    /\ ci' = [ci EXCEPT ![c] = 1]
    /\ cpc' = [cpc EXCEPT ![c] = "sep"]
    /\ UNCHANGED <<file, first, plan, writerPc, loaded>>
    /\ UNCHANGED writerIdleVars

\* WriteChanges(changes): w.mu.Lock()
WriteLock(c) ==
    /\ cpc[c] = "call"
    /\ cb[c] < Len(plan[c])
    /\ mu = 0
    /\ mu' = c
    /\ cb' = [cb EXCEPT ![c] = @ + 1]
    /\ ci' = [ci EXCEPT ![c] = 1]
    /\ cpc' = [cpc EXCEPT ![c] = "sep"]
    /\ UNCHANGED <<file, first, plan, writerPc, loaded>>
    /\ UNCHANGED writerIdleVars

\* mutant: the separator is written before every element
WriteSeparator_Always(c) ==
    /\ cpc[c] = "sep"
    /\ ci[c] <= Len(plan[c][cb[c]])
    /\ file' = file \o Separator
    /\ first' = FALSE
    /\ cpc' = [cpc EXCEPT ![c] = "indent"]
    /\ UNCHANGED <<mu, plan, writerPc, cb, ci, loaded>>
    /\ UNCHANGED writerIdleVars

\* the separator before every element but the first of the file
WriteSeparator(c) ==
    /\ cpc[c] = "sep"
    /\ ci[c] <= Len(plan[c][cb[c]])
    /\ IF ~first
       THEN file' = file \o Separator /\ UNCHANGED first
       ELSE first' = FALSE /\ UNCHANGED file
    /\ cpc' = [cpc EXCEPT ![c] = "indent"]
    /\ UNCHANGED <<mu, plan, writerPc, cb, ci, loaded>>
    /\ UNCHANGED writerIdleVars

\* the indentation of the element
WriteIndent(c) ==
    /\ cpc[c] = "indent"
    /\ file' = file \o Indent
    /\ cpc' = [cpc EXCEPT ![c] = "json"]
    /\ UNCHANGED <<first, mu, plan, writerPc, cb, ci, loaded>>
    /\ UNCHANGED writerIdleVars

\* json.Marshal(change) is written
WriteJSON(c) ==
    /\ cpc[c] = "json"
    /\ file' = Append(file, [t |-> "obj", v |-> Marshal(plan[c][cb[c]][ci[c]])])
    /\ ci' = [ci EXCEPT ![c] = @ + 1]
    /\ cpc' = [cpc EXCEPT ![c] = "sep"]
    /\ UNCHANGED <<first, mu, plan, writerPc, cb, loaded>>
    /\ UNCHANGED writerIdleVars

\* the loop is over: w.mu.Unlock(), WriteChanges returns nil
WriteUnlock(c) ==
    /\ cpc[c] = "sep"
    /\ ci[c] > Len(plan[c][cb[c]])
    /\ mu' = 0
    /\ cpc' = [cpc EXCEPT ![c] = "call"]
    /\ UNCHANGED <<file, first, plan, writerPc, cb, ci, loaded>>
    /\ UNCHANGED writerIdleVars

\* the caller has passed all its batches
CallerDone(c) ==
    /\ cpc[c] = "call"
    /\ cb[c] = Len(plan[c])
    /\ cpc' = [cpc EXCEPT ![c] = "done"]
    /\ UNCHANGED <<file, first, mu, plan, writerPc, cb, ci, loaded>>
    /\ UNCHANGED writerIdleVars

\* Close(), called when every caller is done: the array is closed
Close ==
    /\ writerPc = "open"
    /\ \A c \in Callers : cpc[c] = "done"
    /\ file' = file \o ArrayClose
    /\ writerPc' = "closed"
    /\ UNCHANGED <<first, mu, plan, cpc, cb, ci, loaded>>
    /\ UNCHANGED writerIdleVars

\* loadChangesFromFile on the closed file
LoadChanges ==
    /\ writerPc = "closed"
    /\ loaded' = loadChangesFromFile(file)
    /\ writerPc' = "loaded"
    /\ UNCHANGED <<file, first, mu, plan, cpc, cb, ci>>
    /\ UNCHANGED writerIdleVars

NextWriter ==
    \/ NewFileChangesWriter
    \/ \E c \in Callers : WriteLock(c)
    \/ \E c \in Callers : WriteSeparator(c)
    \/ \E c \in Callers : WriteIndent(c)
    \/ \E c \in Callers : WriteJSON(c)
    \/ \E c \in Callers : WriteUnlock(c)
    \/ \E c \in Callers : CallerDone(c)
    \/ Close
    \/ LoadChanges

SpecWriter == InitWriter /\ [][NextWriter]_vars

\* =========================================== cmd/replay.go, PrintReplayResult
HeadEvents == 10    \* PrintReplayResult: events printed before the elision
ElideOver == 20     \* PrintReplayResult: results longer than this are elided
TailEvents == 10    \* PrintReplayResult: the loop stops within the last ten

\* the lines of the totals (start, end and duration lines are not modelled)
TotalsLines(res) ==
    <<[line |-> "total", n |-> res.TotalEvents],
      [line |-> "success", n |-> res.SuccessEvents],
      [line |-> "failed", n |-> res.FailedEvents],
      [line |-> "skipped", n |-> res.SkippedEvents]>>

\* the line of one event, and its error line if the event is FAILED
EventLines(event) ==
    <<[line |-> "event", ExecutedAt |-> event.ExecutedAt, Key |-> event.Change.Key,
       ChangeType |-> event.Change.ChangeType, Status |-> event.Status]>>
    \o (IF event.Status = "FAILED"
        THEN <<[line |-> "error", ErrorMessage |-> event.ErrorMessage]>>
        ELSE <<>>)

\* for i, event := range result.Events (i counts from 0): past the first ten
\* events of a long result the elision line is printed and i jumps to
\* len - 10; the event at i is printed; the loop breaks when i >= len - 10
RECURSIVE printEvents(_, _)
printEvents(events, i) ==
    IF i >= Len(events) THEN <<>>
    ELSE LET jump == i >= HeadEvents /\ Len(events) > ElideOver
             at == IF jump THEN Len(events) - TailEvents ELSE i
         IN (IF jump THEN <<[line |-> "elided", n |-> Len(events) - ElideOver]>>
             ELSE <<>>)
            \o EventLines(events[at + 1])
            \o (IF at >= Len(events) - TailEvents THEN <<>>
                ELSE printEvents(events, i + 1))

PrintReplayResult(res) ==
    TotalsLines(res)
    \o (IF res.DetailedResults /\ Len(res.Events) > 0
        THEN <<[line |-> "detail"]>> \o printEvents(res.Events, 0)
        ELSE <<>>)

\* the i-th event of a result
ResultEvent(i, status) ==
    [Change |-> Change(IF i % 2 = 1 THEN K1 ELSE K3, 10 + i, "UPDATE", 1, NoVersion),
     ScheduledAt |-> 1, ExecutedAt |-> 1, Status |-> status,
     ErrorMessage |-> IF status = "FAILED" THEN "ErrCopy" ELSE "nil"]

\* the result of a run whose collected events have the statuses sts, with
\* pending events not yet counted (Replay sets DetailedResults)
ResultOf(sts, pending) ==
    [TotalEvents |-> Len(sts) + pending,
     SuccessEvents |-> Cardinality({i \in 1..Len(sts) : sts[i] = "SUCCESS"}),
     FailedEvents |-> Cardinality({i \in 1..Len(sts) : sts[i] = "FAILED"}),
     SkippedEvents |-> Cardinality({i \in 1..Len(sts) : sts[i] = "DRYRUN"}),
     Events |-> [i \in 1..Len(sts) |-> ResultEvent(i, sts[i])],
     DetailedResults |-> TRUE]

\* the statuses of a run: a dry run, or a run whose changes succeed or fail
StatusLists(n) == [1..n -> {"DRYRUN"}] \cup [1..n -> {"SUCCESS", "FAILED"}]

\* the statuses of a long run: all succeed but possibly the last one
LongStatusLists(n) ==
    {[i \in 1..n |-> IF i = n THEN last ELSE "SUCCESS"] : last \in {"SUCCESS", "FAILED"}}

\* the results Replay hands to the command: short ones of every kind, and
\* long ones around the two thresholds of PrintReplayResult
CmdResults ==
    UNION {{ResultOf(sts, pending) : sts \in StatusLists(n), pending \in 0..1} :
           n \in 0..MaxPrinted}
    \cup UNION {{ResultOf(sts, 0) : sts \in LongStatusLists(n)} :
                n \in {TailEvents + MaxPrinted, ElideOver, ElideOver + MaxPrinted}}

\* the replay command has its flags and calls s3.Replay
InitCmd ==
    /\ RollbackIdle
    /\ WriterIdle
    /\ ReplayIdle
    /\ optsConcurrency = 0
    /\ concurrency = 0
    /\ mainPc = "off"
    /\ wpc = [w \in Workers |-> "off"]
    /\ cmdPc = "replay"
    /\ outputFile \in {"", "out"}
    /\ stdout = <<>>
    /\ outFile = NoFile

cmdIdleVars == <<rollbackVars, timingVars, writerVars, optsConcurrency, concurrency,
                 mainPc, wpc, sourceFile, dryRun, replayChanges, eventCh, fed,
                 feederPc, wevent, keyMutexes, doneCh, replayResult, destCalls>>

\* result, err := s3.Replay(opts): an error, or a result
CmdReplay ==
    /\ cmdPc = "replay"
    /\ returned' \in CmdResults \cup {[Status |-> "ErrLoad"]}
    /\ cmdPc' = "called"
    /\ UNCHANGED <<outputFile, stdout, outFile>>
    /\ UNCHANGED cmdIdleVars

\* if err != nil: the error is logged and the command returns
CmdReplayError ==
    /\ cmdPc = "called"
    /\ returned = [Status |-> "ErrLoad"]
    /\ cmdPc' = "done"
    /\ UNCHANGED <<outputFile, stdout, outFile, returned>>
    /\ UNCHANGED cmdIdleVars

\* s3.PrintReplayResult(result, os.Stdout)
CmdPrint ==
    /\ cmdPc = "called"
    /\ returned # [Status |-> "ErrLoad"]
    /\ stdout' = PrintReplayResult(returned)
    /\ cmdPc' = "printed"
    /\ UNCHANGED <<outputFile, outFile, returned>>
    /\ UNCHANGED cmdIdleVars

\* if result.FailedEvents > 0: the failure is logged and the command returns
CmdFailedEvents ==
    /\ cmdPc = "printed"
    /\ returned.FailedEvents > 0
    /\ cmdPc' = "done"
    /\ UNCHANGED <<outputFile, stdout, outFile, returned>>
    /\ UNCHANGED cmdIdleVars

\* no event failed: the completion is logged
CmdCompleted ==
    /\ cmdPc = "printed"
    /\ returned.FailedEvents = 0
    /\ cmdPc' = "summary"
    /\ UNCHANGED <<outputFile, stdout, outFile, returned>>
    /\ UNCHANGED cmdIdleVars

\* --output was not given
CmdNoOutput ==
    /\ cmdPc = "summary"
    /\ outputFile = ""
    /\ cmdPc' = "done"
    /\ UNCHANGED <<outputFile, stdout, outFile, returned>>
    /\ UNCHANGED cmdIdleVars

\* os.Create(outputFile) fails: the error is logged and the command returns
CmdCreateFails ==
    /\ cmdPc = "summary"
    /\ outputFile # ""
    /\ cmdPc' = "createFailed"
    /\ UNCHANGED <<outputFile, stdout, outFile, returned>>
    /\ UNCHANGED cmdIdleVars

\* the title, the date and PrintReplayResult(result, file) go to the file
CmdWriteOutput ==
    /\ cmdPc = "summary"
    /\ outputFile # ""
    /\ outFile' = <<[line |-> "title"], [line |-> "date"]>> \o PrintReplayResult(returned)
    /\ cmdPc' = "done"
    /\ UNCHANGED <<outputFile, stdout, returned>>
    /\ UNCHANGED cmdIdleVars

NextCmd ==
    \/ CmdReplay
    \/ CmdReplayError
    \/ CmdPrint
    \/ CmdFailedEvents
    \/ CmdCompleted
    \/ CmdNoOutput
    \/ CmdCreateFails
    \/ CmdWriteOutput

SpecCmd == InitCmd /\ [][NextCmd]_vars

\* ================================================ the two worker pools
\* a multi-key rollback or a replay
InitPools == Init \/ InitReplay

NextPools == Next \/ NextReplay

SpecPools == InitPools /\ [][NextPools]_vars

\* the two pools over keys: a multi-key rollback or a change enumeration
InitKeyPools ==
    /\ Init \/ InitStream
    \* which error is returned depends on the keys that fail, not on the
    \* cutoff, the prefix or the length of a key's history
    /\ timestamp = MaxTime - 1
    /\ prefix = <<>>
    /\ \A k \in AllKeys : Len(store[k]) <= 1

NextKeyPools == Next \/ NextStream

SpecKeyPools == InitKeyPools /\ [][NextKeyPools]_vars

\* ================================================= rollback of one key
\* vocabulary of the claims, over a history h (oldest first) and a target T
VersionsOf(h) == {i \in 1..Len(h) : ~h[i].marker}
EventsSince(h, T) == {i \in 1..Len(h) : h[i].lm >= T}
VersionsBefore(h, T) == {i \in VersionsOf(h) : h[i].lm < T}
FreshestBefore(h, T) ==
    {i \in VersionsBefore(h, T) : \A j \in VersionsBefore(h, T) : h[j].lm <= h[i].lm}
Runs == {runLog[n] : n \in 1..Len(runLog)}
\* the store answered the listings the run asked for
Answered(r) == r.fault \notin {"list", "find"}
Noop(r) == r.calls = <<>> /\ r.err = "nil"
IsCopyOf(r, h, idx) ==
    /\ Len(r.calls) = 1
    /\ r.calls[1].op = "CopyObject"
    /\ r.calls[1].key = key
    /\ \E i \in idx : r.calls[1].versionId = h[i].vid
IsDelete(r) ==
    /\ Len(r.calls) = 1
    /\ r.calls[1].op = "DeleteObject"
    /\ r.calls[1].key = key

RestoreCase(r) ==
    /\ Answered(r)
    /\ VersionsOf(r.hist) \cap EventsSince(r.hist, timestamp) # {}
    /\ VersionsBefore(r.hist, timestamp) # {}

\* C1: a key with a version at or after T and a version before T gets exactly
\* one CopyObject onto itself, from the freshest version strictly before T,
\* and no DeleteObject (given that the store answered the listings).
C1_RestoreFreshestBefore ==
    \A r \in Runs :
        RestoreCase(r) => IsCopyOf(r, r.hist, FreshestBefore(r.hist, timestamp))

C1_Witness ==
    \E r \in Runs :
        /\ RestoreCase(r)
        /\ r.err = "nil"
        /\ Len(r.hist) >= 3
        /\ Cardinality(VersionsBefore(r.hist, timestamp)) >= 2
        /\ IsCopyOf(r, r.hist, FreshestBefore(r.hist, timestamp))

DeleteCase(r) ==
    /\ r.fault # "list"
    /\ Len(r.hist) > 0
    /\ \A i \in 1..Len(r.hist) : r.hist[i].lm >= timestamp

NoChangeCase(r) ==
    /\ r.fault # "list"
    /\ EventsSince(r.hist, timestamp) = {}

Enumerations == {changeLog[n] : n \in 1..Len(changeLog)}
Emitted(e) == {e.changes[i].VersionID : i \in 1..Len(e.changes)}
AtCutoff(h, T) == {i \in 1..Len(h) : h[i].lm = T}

\* C4: an event whose lastModified equals T counts as a change since T in
\* rollback (the key is not a no-op), is emitted by the enumeration, and is
\* never the restore source nor a previousVersionId found before T.
C4_CutoffIsAfter ==
    /\ \A r \in Runs :
          (Answered(r) /\ AtCutoff(r.hist, timestamp) # {}) =>
              /\ ~Noop(r)
              /\ \A n \in 1..Len(r.calls), i \in AtCutoff(r.hist, timestamp) :
                    r.calls[n].versionId # r.hist[i].vid
    /\ \A e \in Enumerations :
          e.fault # "list" =>
              /\ \A i \in AtCutoff(e.hist, timestamp) : e.hist[i].vid \in Emitted(e)
              /\ Len(e.changes) > 0 =>
                    \A i \in AtCutoff(e.hist, timestamp) :
                        e.changes[1].PreviousVersionID # e.hist[i].vid

MarkerOnlySinceCase(r) ==
    /\ Answered(r)
    /\ VersionsBefore(r.hist, timestamp) # {}
    /\ EventsSince(r.hist, timestamp) # {}
    /\ \A i \in EventsSince(r.hist, timestamp) : r.hist[i].marker

\* C5: delete markers count as events at or after T: a key with a version
\* before T whose only events at or after T are delete markers is restored to
\* its freshest version before T.
C5_MarkersCountAsChanges ==
    \A r \in Runs :
        MarkerOnlySinceCase(r) =>
            IsCopyOf(r, r.hist, FreshestBefore(r.hist, timestamp))

\* C7: once a rollback of the key has been applied to the store, the next
\* rollback of the key with the same T issues no store mutation.
C7_Idempotent ==
    \A n \in 1..(Len(runLog) - 1) :
        (/\ runLog[n].calls # <<>>
         /\ runLog[n].err = "nil"
         /\ Answered(runLog[n + 1]))
        => Noop(runLog[n + 1])

IsolatedStore(h) == [k \in AllKeys |-> IF k = key THEN h ELSE <<>>]

\* C11: the scoped listing keeps the entries of the requested key only: the
\* calls and the error of a rollback, and the change list of an enumeration
\* (types, version ids, previous version ids), are those obtained when no
\* other key exists, whatever the keys sharing the requested key as a prefix.
C11_ExactKeyOnly ==
    /\ \A r \in Runs :
          LET alone == rollbackSingleObject(IsolatedStore(r.hist), key, timestamp,
                                            r.fault, now, maxKeys)
          IN r.calls = alone.calls /\ r.err = alone.err
    /\ \A e \in Enumerations :
          LET alone == getChangesForKey(IsolatedStore(e.hist), key, timestamp,
                                        e.fault, maxKeys)
          IN e.changes = alone.changes /\ e.err = alone.err

\* the neighbour K2 has an event at or after T
NeighbourChanged ==
    /\ key = K1
    /\ \E i \in 1..Len(store0[K2]) : store0[K2][i].lm >= timestamp

C11_Witness ==
    /\ NeighbourChanged
    /\ \E r \in Runs :
          /\ r.fault = "none"
          /\ VersionsOf(r.hist) # {}
          /\ EventsSince(r.hist, timestamp) = {}
          /\ Noop(r)
    /\ \E e \in Enumerations :
          /\ e.fault = "none"
          /\ Len(e.hist) > 0
          /\ Len(e.changes) < Len(e.hist)
          /\ \A i \in 1..Len(e.changes) : e.changes[i].Key = key

\* ================================================== multi-key rollback
\* what a plain read of the key returns: 0 when absent, else the content
Visible(h) == IF Len(h) = 0 \/ h[Len(h)].marker THEN 0 ELSE h[Len(h)].content
\* the history as it was at T: the events strictly before T, or up to T
HistoryBefore(h, T) == SelectSeq(h, LAMBDA e : e.lm < T)
HistoryUpTo(h, T) == SelectSeq(h, LAMBDA e : e.lm <= T)
Processed == {runLog[n].key : n \in 1..Len(runLog)}

\* C6: after a rollback that returned no error, every key under the prefix
\* reads as it did at T (an event at exactly T may count either way).
C6_VisibleStateRestored ==
    (mainPc = "returned" /\ result = "nil") =>
        \A k \in AllKeys :
            HasPrefix(k, prefix) =>
                Visible(store[k]) \in {Visible(HistoryBefore(store0[k], timestamp)),
                                       Visible(HistoryUpTo(store0[k], timestamp))}

\* C8: a failure on one key does not stop the others: when the call returns,
\* every listed key has been passed to rollbackSingleObject.
C8_FailureIsPerItem ==
    (mainPc = "returned" /\ Len(listedKeys) > 0) =>
        \A n \in 1..Len(listedKeys) : listedKeys[n] \in Processed

\* C12: when the listing of the keys fails the rollback returns the error and
\* issues no store mutation; when the listing succeeds and is empty it returns
\* success and issues no store mutation.
C12_ListingFailureAborts ==
    /\ result = "ErrListObjects" =>
          mainPc = "returned" /\ runLog = <<>> /\ store = store0
    /\ (/\ mainPc = "returned"
        /\ result # "ErrListObjects"
        /\ Len(ListObjectsV2(store0, prefix, maxKeys).Contents) = 0)
       => result = "nil" /\ runLog = <<>> /\ store = store0

\* the listing failed on a store that has a current key changed since T
C12_Witness ==
    /\ mainPc = "returned"
    /\ result = "ErrListObjects"
    /\ \E k \in AllKeys :
          /\ HasPrefix(k, prefix)
          /\ IsCurrent(store0, k)
          /\ EventsSince(store0[k], timestamp) # {}

\* the calls rollbackSingleObject issues for a key when it sees all of its history
CompleteDecision(r) ==
    rollbackSingleObject([k \in AllKeys |-> IF k = r.key THEN r.hist ELSE <<>>],
                         r.key, timestamp, r.fault, now, Len(r.hist) + 1).calls

\* C10: listings are read to the last page: when the rollback returns without
\* error every current key under the prefix has been processed, and each
\* key's decision is the one its complete history gives.
C10_ListingsReadToCompletion ==
    (mainPc = "returned" /\ result = "nil") =>
        /\ \A k \in AllKeys :
              (HasPrefix(k, prefix) /\ IsCurrent(store0, k)) => k \in Processed
        /\ \A n \in 1..Len(runLog) : runLog[n].calls = CompleteDecision(runLog[n])

\* ======================================================= worker pools
\* the pool size N: opts.Concurrency, or DefaultConcurrency when it is <= 0
PoolSize == IF optsConcurrency <= 0 THEN DefaultConcurrency ELSE optsConcurrency
Started == {w \in Workers : wpc[w] # "off"}
\* workers inside rollbackSingleObject
InRollback == {w \in Workers : wpc[w] = "rollback"}
\* workers inside executeChange
InExecute == {w \in Workers : wpc[w] = "exec" /\ ~dryRun}

\* C13: never more than N workers, hence never more than N calls of
\* rollbackSingleObject (rollback) or of executeChange (replay) in progress,
\* where N is the configured concurrency, or 10 when that is <= 0.
C13_BoundedWorkers ==
    /\ Cardinality(Started) \in {0, PoolSize}
    /\ Cardinality(InRollback) <= PoolSize
    /\ Cardinality(InExecute) <= PoolSize

\* every worker of the pool is inside rollbackSingleObject while a key waits
C13_Witness ==
    /\ optsConcurrency = 1
    /\ Cardinality(InRollback) = PoolSize
    /\ keyCh # <<>>

\* ================================================= change enumeration
RECURSIVE FlattenBatches(_)
FlattenBatches(cbs) ==
    IF cbs = <<>> THEN <<>> ELSE Head(cbs).batch \o FlattenBatches(Tail(cbs))

\* the changes passed to the callback, in the order they were passed
Delivered == FlattenBatches(callbacks)
\* how many times the event vid of key k occurs in a change list
CountIn(list, k, vid) ==
    Cardinality({i \in 1..Len(list) : list[i].Key = k /\ list[i].VersionID = vid})
\* the call returned nil: no key failed and no callback failed
StreamSucceeded == mainPc = "returned" /\ result = "nil"

\* C14: the change list of a key holds exactly one change for each of its
\* events (versions and delete markers) at or after T and none for an event
\* before T; and when ProcessChangesStreaming returns nil, the batches passed
\* to the callback together hold each such change of each listed key exactly
\* once.
C14_EveryChangeOnce ==
    /\ \A e \in Enumerations :
          e.err = "nil" =>
              \A i \in 1..Len(e.hist) :
                  CountIn(e.changes, e.key, e.hist[i].vid)
                      = IF i \in EventsSince(e.hist, timestamp) THEN 1 ELSE 0
    /\ StreamSucceeded =>
          \A n \in 1..Len(listedKeys) :
              LET k == listedKeys[n]
              IN \A i \in 1..Len(store[k]) :
                    CountIn(Delivered, k, store[k][i].vid)
                        = IF i \in EventsSince(store[k], timestamp) THEN 1 ELSE 0

\* the version ids of the versions of h that no version of h is older than
OldestVersions(h) ==
    {h[i].vid : i \in {j \in VersionsOf(h) :
                         \A l \in VersionsOf(h) : h[j].lm <= h[l].lm}}
\* the versions of h as the store lists them
VersionEntries(h) == SelectSeq(KeyEntries(IsolatedStore(h), key), IsVersionEntry)
\* enumerations of the operation's key that the store answered
Answers == {e \in Enumerations : e.err = "nil"}

\* C15: a change of type CREATE carries the version id of an oldest version
\* of the key by lastModified; isFirstVersionOfKey is false for a version
\* that is not an oldest one, for a version id that is not in the history and
\* for an empty version list.
C15_CreateIsOldestVersion ==
    \A e \in Answers :
        /\ \A i \in 1..Len(e.changes) :
              e.changes[i].ChangeType = "CREATE" =>
                  e.changes[i].VersionID \in OldestVersions(e.hist)
        /\ \A vid \in 0..(Len(e.hist) + 1) :
              /\ isFirstVersionOfKey(VersionEntries(e.hist), vid) =>
                    vid \in OldestVersions(e.hist)
              /\ ~isFirstVersionOfKey(<<>>, vid)

\* a CREATE was emitted for a key with several versions, and not for the
\* newest one
C15_Witness ==
    \E e \in Answers :
        /\ Cardinality(VersionsOf(e.hist)) >= 2
        /\ Len(e.changes) >= 2
        /\ e.changes[1].ChangeType = "CREATE"
        /\ e.changes[1].VersionID # e.hist[Len(e.hist)].vid

\* the key's latest version with lastModified strictly before T, or none
LatestBefore(h, T) ==
    LET older == {i \in VersionsOf(h) : h[i].lm < T}
    IN IF older = {} THEN NoVersion ELSE h[MaxOf(older)].vid
\* the positions of the emitted non-marker changes that are not of type CREATE
NonCreate(changes) ==
    {i \in 1..Len(changes) :
        ~changes[i].IsDeleteMarker /\ changes[i].ChangeType # "CREATE"}

IndexOf(h, vid) ==
    IF \E i \in 1..Len(h) : h[i].vid = vid
    THEN CHOOSE i \in 1..Len(h) : h[i].vid = vid
    ELSE 0
\* the key's last version created before the event at position d, or none
VersionPreceding(h, d) ==
    LET older == {i \in VersionsOf(h) : i < d}
    IN IF older = {} THEN NoVersion ELSE h[MaxOf(older)].vid
Undeletes(changes) ==
    {i \in 1..Len(changes) : changes[i].ChangeType = "UNDELETE"}

\* C17: an emitted UNDELETE directly follows an emitted DELETE of the key, and
\* its previousVersionId is the version of the key that precedes that delete
\* marker in the key's history; for v1@t0, delete@t1, v2@t2 and T = t1 the
\* list is DELETE(marker, no previous), UNDELETE(v2, previous v1).
C17_UndeleteAfterDelete ==
    \A e \in Answers :
        \A i \in Undeletes(e.changes) :
            /\ i > 1
            /\ e.changes[i - 1].ChangeType = "DELETE"
            /\ e.changes[i - 1].IsDeleteMarker
            /\ e.changes[i].PreviousVersionID =
                  VersionPreceding(e.hist, IndexOf(e.hist, e.changes[i - 1].VersionID))

\* the part of C17 the code keeps: an UNDELETE directly follows a DELETE
C17_UndeleteFollowsDelete ==
    \A e \in Answers :
        \A i \in Undeletes(e.changes) :
            /\ i > 1
            /\ e.changes[i - 1].ChangeType = "DELETE"
            /\ e.changes[i - 1].IsDeleteMarker

Updates(changes) ==
    {i \in 1..Len(changes) : changes[i].ChangeType = "UPDATE"}
\* no version of h has lastModified strictly between a and b
NoVersionBetween(h, a, b) ==
    \A i \in VersionsOf(h) : ~(a < h[i].lm /\ h[i].lm < b)

\* C18 as stated: the predecessor p named by an emitted UPDATE c is a version
\* of the key, p.lastModified < c.timestamp, and no version of the key has
\* lastModified strictly between the two.
C18_UpdatePredecessorStrict ==
    \A e \in Answers :
        \A i \in Updates(e.changes) :
            LET c == e.changes[i]
                p == IndexOf(e.hist, c.PreviousVersionID)
            IN /\ p \in VersionsOf(e.hist)
               /\ e.hist[p].lm < c.Timestamp
               /\ NoVersionBetween(e.hist, e.hist[p].lm, c.Timestamp)

\* C18 amended: the predecessor p named by an emitted UPDATE c is another
\* version of the key, p.lastModified <= c.timestamp, and no version of the
\* key has lastModified strictly between the two.
C18_UpdatePredecessor ==
    \A e \in Answers :
        \A i \in Updates(e.changes) :
            LET c == e.changes[i]
                p == IndexOf(e.hist, c.PreviousVersionID)
            IN /\ p \in VersionsOf(e.hist)
               /\ e.hist[p].vid # c.VersionID
               /\ e.hist[p].lm <= c.Timestamp
               /\ NoVersionBetween(e.hist, e.hist[p].lm, c.Timestamp)

\* three versions at three instants were emitted, the last one as an UPDATE
\* of the second
C18_Witness ==
    \E e \in Answers :
        /\ Len(e.changes) = 3
        /\ 3 \in Updates(e.changes)
        /\ e.changes[3].PreviousVersionID = e.changes[2].VersionID
        /\ e.changes[1].Timestamp < e.changes[2].Timestamp
        /\ e.changes[2].Timestamp < e.changes[3].Timestamp

\* the delivered changes of key k, in delivery order
DeliveredFor(k) == SelectSeq(Delivered, LAMBDA c : c.Key = k)
\* the whole history of k is one delete marker written at T
OnlyMarkerAt(h, T) == Len(h) = 1 /\ h[1].marker /\ h[1].lm = T

\* C19: when replay-list with cutoff T succeeds on a prefix holding a key
\* whose whole history is one delete marker with lastModified = T, exactly one
\* change is emitted for that key: a DELETE of the marker, isDeleteMarker
\* set, no previousVersionId.
C19_MarkerOnlyKey ==
    StreamSucceeded =>
        \A k \in AllKeys :
            (HasPrefix(k, prefix) /\ OnlyMarkerAt(store[k], timestamp)) =>
                /\ Len(DeliveredFor(k)) = 1
                /\ DeliveredFor(k)[1].ChangeType = "DELETE"
                /\ DeliveredFor(k)[1].IsDeleteMarker
                /\ DeliveredFor(k)[1].VersionID = store[k][1].vid
                /\ DeliveredFor(k)[1].PreviousVersionID = NoVersion

\* C20: the changes emitted for one key appear in the output in
\* non-decreasing timestamp order, in the change list of the key and in the
\* sequence of changes passed to the callback, whatever the pool size and the
\* batch size.
C20_PerKeyOrder ==
    /\ \A e \in Enumerations :
          \A i \in 1..(Len(e.changes) - 1) :
              e.changes[i].Timestamp <= e.changes[i + 1].Timestamp
    /\ \A k \in AllKeys :
          \A i \in 1..(Len(DeliveredFor(k)) - 1) :
              DeliveredFor(k)[i].Timestamp <= DeliveredFor(k)[i + 1].Timestamp

\* two changes of one key at two instants were delivered with a change of
\* another key between them
C20_Witness ==
    \E i, j, l \in 1..Len(Delivered) :
        /\ i < j /\ j < l
        /\ Delivered[i].Key = Delivered[l].Key
        /\ Delivered[j].Key # Delivered[i].Key
        /\ Delivered[i].Timestamp < Delivered[l].Timestamp

\* C21: the change log replay-list produces (the batches passed to the
\* callback one after the other, which is what the file writer receives and
\* what GetChangesList returns) is sorted over the whole output: timestamps
\* never decrease, across keys and across batches.
C21_GloballySorted ==
    StreamSucceeded =>
        \A i \in 1..(Len(Delivered) - 1) :
            Delivered[i].Timestamp <= Delivered[i + 1].Timestamp

\* =========================================================== change log
RECURSIVE Flatten(_)
Flatten(batches) ==
    IF batches = <<>> THEN <<>> ELSE Head(batches) \o Flatten(Tail(batches))
\* the callers that have batches to write
Writing == {c \in Callers : Len(Flatten(plan[c])) > 0}
\* the file was closed and read back
ReadBack == writerPc = "loaded"
\* the position in list of the change with version id vid (0: none)
PositionOf(list, vid) ==
    IF \E i \in 1..Len(list) : list[i].VersionID = vid
    THEN CHOOSE i \in 1..Len(list) : list[i].VersionID = vid
    ELSE 0

\* C22: a list written by one caller (open, WriteChanges on any split of the
\* list into batches, Close) and read back with loadChangesFromFile comes back
\* without error as the same list: same length, same order, same field values;
\* the empty list comes back as the empty list.
C22_RoundTrip ==
    (ReadBack /\ Writing \subseteq {1}) =>
        /\ loaded.err = "nil"
        /\ loaded.changes = Flatten(plan[1])

\* a list of MaxWrite changes, one of them without size and etag and one with
\* a predecessor, written in several calls, was read back
C22_Witness ==
    /\ ReadBack
    /\ Writing = {1}
    /\ Len(plan[1]) >= 2
    /\ Len(loaded.changes) = MaxWrite
    /\ \E i \in 1..MaxWrite : loaded.changes[i].Size = 0 /\ loaded.changes[i].ETag = ""
    /\ \E i \in 1..MaxWrite : loaded.changes[i].PreviousVersionID # NoVersion

\* the tokens of the file without the indentation
Meaningful == SelectSeq(file, LAMBDA tok : tok.t # "ws")

\* C23: whatever the interleaving of concurrent WriteChanges calls, the file
\* after Close is one well-formed array: one separator between two consecutive
\* elements and none before the first, every element of every batch exactly
\* once, and the elements of a batch next to each other in batch order.
C23_ConcurrentWrites ==
    writerPc \in {"closed", "loaded"} =>
        LET r == loadChangesFromFile(file)
            total == Len(Flatten([c \in Callers |-> Flatten(plan[c])]))
        IN /\ r.err = "nil"
           /\ Len(r.changes) = total
           /\ Len(Meaningful) = (IF total = 0 THEN 2 ELSE 2 * total + 1)
           /\ \A i \in 1..Len(Meaningful) :
                 Meaningful[i].t = (IF i = 1 THEN "["
                                    ELSE IF i = Len(Meaningful) THEN "]"
                                    ELSE IF i % 2 = 0 THEN "obj" ELSE ",")
           /\ \A c \in Callers : \A b \in 1..Len(plan[c]) :
                 \A i \in 1..Len(plan[c][b]) :
                    LET at == PositionOf(r.changes, plan[c][b][i].VersionID)
                    IN /\ at # 0
                       /\ r.changes[at] = plan[c][b][i]
                       /\ i > 1 =>
                            at = PositionOf(r.changes, plan[c][b][i - 1].VersionID) + 1

\* two callers wrote, one of them a batch of two changes, and the other
\* caller's batch came first in the file
C23_Witness ==
    /\ writerPc = "closed"
    /\ Writing = {1, 2}
    /\ \E b \in 1..Len(plan[1]) : Len(plan[1][b]) = 2
    /\ Len(plan[2]) >= 1
    /\ Len(plan[2][1]) >= 1
    /\ Meaningful[2].v = Marshal(plan[2][1][1])

\* the workers between mutex.Lock() and mutex.Unlock() (executeChange included)
Executing == {w \in Workers : wpc[w] \in {"exec", "unlock"}}

\* C24: at no time are two workers between acquiring and releasing the mutex
\* with changes of the same key, whatever the pool size and the interleaving
C24_KeySerialized ==
    \A w1, w2 \in Executing :
        w1 # w2 => wevent[w1].Change.Key # wevent[w2].Change.Key

\* a worker executes a change while another worker holds a change of the same
\* key and is kept at mutex.Lock() by the mutex they share
C24_Witness ==
    \E w1, w2 \in Workers :
        /\ wpc[w1] = "exec"
        /\ wpc[w2] = "lock"
        /\ wevent[w1].Change.Key = wevent[w2].Change.Key
        /\ wmutex[w1] = wmutex[w2]
        /\ ~ENABLED WorkerLock(w2)

\* the positions of destCalls that copy a version named by the sorted log
LoggedCopies ==
    {i \in 1..Len(destCalls) :
        /\ destCalls[i].op = "CopyObject"
        /\ PositionOf(replayChanges, destCalls[i].versionId) # 0}

\* C25: the store mutations of two changes on the same key are issued in the
\* order of the time-sorted log (violated: a worker that received the later
\* change can acquire the key's mutex first)
C25_SameKeyInLogOrder ==
    \A i, j \in LoggedCopies :
        (i < j /\ destCalls[i].key = destCalls[j].key) =>
            PositionOf(replayChanges, destCalls[i].versionId)
                < PositionOf(replayChanges, destCalls[j].versionId)

\* the events that exist: held by a worker, sent on doneCh, or collected
AllEvents ==
    {wevent[w] : w \in {x \in Workers : wevent[x] # NoEvent}}
    \cup {doneCh[i] : i \in 1..Len(doneCh)}
    \cup {replayResult.Events[i] : i \in 1..Len(replayResult.Events)}
\* the events of the earliest change of the sorted log
FirstEvents == {e \in AllEvents : e.Change = replayChanges[1]}
\* the speed factor as a fraction <<numerator, denominator>>, 1.0 if <= 0
ClaimedFactor == IF speedFactor[1] > 0 THEN speedFactor ELSE <<1, 1>>
\* the timestamp of a change relative to the earliest change of the log
RelativeTime(e) == e.Change.Timestamp - replayChanges[1].Timestamp

\* C26 as stated: scheduledAt(i) - scheduledAt(0) is exactly
\* (L[i].timestamp - L[0].timestamp) / F (violated: the quotient is cut to a
\* whole clock unit)
C26_ScheduleExact ==
    ~ignoreTimeWindows =>
        \A e \in AllEvents : \A e0 \in FirstEvents :
            (e.ScheduledAt - e0.ScheduledAt) * ClaimedFactor[1]
                = RelativeTime(e) * ClaimedFactor[2]

\* C26: with time windows, every event is scheduled at the schedule of the
\* earliest change plus (L[i].timestamp - L[0].timestamp) / F cut to a whole
\* clock unit, F being 1.0 when the speed factor is <= 0; the earliest change
\* is scheduled at the start time
C26_ScheduleTruncated ==
    ~ignoreTimeWindows =>
        /\ \A e0 \in FirstEvents : e0.ScheduledAt = startTime
        /\ \A e \in AllEvents : \A e0 \in FirstEvents :
              e.ScheduledAt - e0.ScheduledAt
                  = (RelativeTime(e) * ClaimedFactor[2]) \div ClaimedFactor[1]

\* at speed 2.0 a change two units after the earliest one was reported,
\* scheduled one unit after it
C26_Witness ==
    /\ ~ignoreTimeWindows
    /\ speedFactor = <<2, 1>>
    /\ Len(replayResult.Events) = Len(replayChanges)
    /\ \E i \in 1..Len(replayResult.Events) :
          /\ RelativeTime(replayResult.Events[i]) = 2
          /\ replayResult.Events[i].ScheduledAt = startTime + 1

\* the events whose change has got the key's mutex
ExecutedEvents ==
    {wevent[w] : w \in {x \in Workers : wpc[x] \in {"exec", "unlock", "report"}}}
    \cup {doneCh[i] : i \in 1..Len(doneCh)}
    \cup {replayResult.Events[i] : i \in 1..Len(replayResult.Events)}

\* no event is executed before its scheduled instant
NotBeforeSchedule == \A e \in ExecutedEvents : e.ExecutedAt >= e.ScheduledAt

\* without time windows no worker sleeps
NoSleepWhenIgnored == ignoreTimeWindows => \A w \in Workers : wpc[w] # "wait"

\* a received change waits exactly when its schedule is still to come, and
\* executedAt is the instant the mutex is acquired
WaitOnlyForFuture ==
    \A w \in Workers :
        /\ (wpc[w] = "take" /\ wpc'[w] = "wait") => wallClock < wevent'[w].ScheduledAt
        /\ (wpc[w] = "take" /\ wpc'[w] = "lock") =>
              (ignoreTimeWindows \/ wevent'[w].ScheduledAt <= wallClock)
        /\ (wpc[w] = "lock" /\ wpc'[w] = "exec") => wevent'[w].ExecutedAt = wallClock

\* C27: every event has executedAt >= scheduledAt, executedAt being the
\* instant the key's mutex was acquired; a change scheduled in the past is
\* not made to wait, and without time windows no worker ever waits
C27_NeverEarly ==
    /\ []NotBeforeSchedule
    /\ []NoSleepWhenIgnored
    /\ [][WaitOnlyForFuture]_vars

\* with time windows, all events are collected: one was scheduled after the
\* start and got its mutex later than scheduled, another one was scheduled at
\* the start and got its mutex when that instant was past
C27_Witness ==
    /\ ~ignoreTimeWindows
    /\ Len(replayChanges) = 2
    /\ Len(replayResult.Events) = 2
    /\ \E i, j \in 1..2 :
          /\ replayResult.Events[i].ScheduledAt > startTime
          /\ replayResult.Events[i].ExecutedAt > replayResult.Events[i].ScheduledAt
          /\ replayResult.Events[j].ScheduledAt = startTime
          /\ replayResult.Events[j].ExecutedAt > startTime

\* the changes executeChange has a store operation for
HasOperation(c) ==
    \/ c.ChangeType \in {"CREATE", "UPDATE", "DELETE"}
    \/ c.ChangeType = "UNDELETE" /\ c.PreviousVersionID # NoVersion

\* the one store operation a change stands for
ExpectedCall(c) ==
    IF c.ChangeType = "DELETE"
    THEN [op |-> "DeleteObject", bucket |-> DestBucket, key |-> c.Key,
          source |-> NoBucket, versionId |-> NoVersion]
    ELSE [op |-> "CopyObject", bucket |-> DestBucket, key |-> c.Key,
          source |-> SourceBucket,
          versionId |-> IF c.ChangeType = "UNDELETE" THEN c.PreviousVersionID
                        ELSE c.VersionID]

\* the calls the changes of the sorted log stand for
ExpectedCalls ==
    {ExpectedCall(replayChanges[i]) :
        i \in {j \in 1..Len(replayChanges) : HasOperation(replayChanges[j])}}

\* every worker has sent the event of every change
AllReported == /\ feederPc # "off"
               /\ Len(doneCh) + Len(replayResult.Events) = Len(replayChanges)

\* C28: every store operation of a replay is the one its change stands for
\* (copy of change.versionId for CREATE and UPDATE, delete for DELETE, copy of
\* previousVersionId for UNDELETE, all on the destination bucket and the
\* change's key), and once all changes are executed each of them has issued
\* exactly one operation
C28_OneOperationPerChange ==
    ~dryRun =>
        /\ \A i \in 1..Len(destCalls) : destCalls[i] \in ExpectedCalls
        /\ AllReported =>
              \A call \in ExpectedCalls :
                 Cardinality({i \in 1..Len(destCalls) : destCalls[i] = call})
                    = Cardinality({i \in 1..Len(replayChanges) :
                                      /\ HasOperation(replayChanges[i])
                                      /\ ExpectedCall(replayChanges[i]) = call})

\* an UNDELETE with a previous version was replayed: one copy of that version
C28_Witness ==
    /\ ~dryRun
    /\ AllReported
    /\ Len(replayChanges) = 1
    /\ replayChanges[1].ChangeType = "UNDELETE"
    /\ destCalls = <<[op |-> "CopyObject", bucket |-> DestBucket,
                      key |-> replayChanges[1].Key, source |-> SourceBucket,
                      versionId |-> replayChanges[1].PreviousVersionID]>>

\* the events whose status is set
StatusEvents ==
    {wevent[w] : w \in {x \in Workers : wpc[x] \in {"unlock", "report"}}}
    \cup {doneCh[i] : i \in 1..Len(doneCh)}
    \cup {replayResult.Events[i] : i \in 1..Len(replayResult.Events)}

\* C29: a change of unknown type and an UNDELETE without previous version
\* issue no store operation and are reported FAILED with an error message;
\* the replay goes on: it returns only when every change has its event, and
\* every other change has issued its operation by then
C29_PerItemError ==
    ~dryRun =>
        /\ \A e \in StatusEvents :
              ~HasOperation(e.Change) => e.Status = "FAILED" /\ e.ErrorMessage # "nil"
        /\ Len(destCalls) <= Cardinality({i \in 1..Len(replayChanges) :
                                            HasOperation(replayChanges[i])})
        /\ (mainPc = "returned" /\ returned # [Status |-> "ErrLoad"]) => AllReported
        /\ AllReported =>
              \A i \in 1..Len(replayChanges) :
                 HasOperation(replayChanges[i]) =>
                    \E j \in 1..Len(destCalls) :
                       destCalls[j] = ExpectedCall(replayChanges[i])

\* a log of a change of unknown type followed by an UPDATE was replayed: the
\* first one is FAILED, the UPDATE is copied and SUCCESS
C29_Witness ==
    /\ ~dryRun
    /\ mainPc = "returned"
    /\ Len(replayChanges) = 2
    /\ replayChanges[1].ChangeType = "PURGE"
    /\ Len(replayResult.Events) = 2
    /\ \E i, j \in 1..2 :
          /\ replayResult.Events[i].Change = replayChanges[1]
          /\ replayResult.Events[i].Status = "FAILED"
          /\ replayResult.Events[j].Change = replayChanges[2]
          /\ replayResult.Events[j].Status = "SUCCESS"
    /\ destCalls = <<ExpectedCall(replayChanges[2])>>

\* Replay returned a result (the log was loaded)
ReplayReturned == mainPc = "returned" /\ returned # [Status |-> "ErrLoad"]

\* C30: in a dry run no store operation is issued, every event has status
\* DRYRUN, and the result Replay returns has skipped = total and
\* success = failed = 0 (violated: Replay can return before the collecting
\* goroutine has counted the events)
C30_DryRunTotals ==
    dryRun =>
        /\ destCalls = <<>>
        /\ \A e \in StatusEvents : e.Status = "DRYRUN"
        /\ ReplayReturned =>
              /\ returned.SkippedEvents = returned.TotalEvents
              /\ returned.SuccessEvents = 0
              /\ returned.FailedEvents = 0

\* what holds of a dry run: no store operation, every event DRYRUN, and once
\* the collecting goroutine has received every event, skipped = total
C30_DryRunCollected ==
    dryRun =>
        /\ destCalls = <<>>
        /\ \A e \in StatusEvents : e.Status = "DRYRUN"
        /\ replayResult.SuccessEvents = 0
        /\ replayResult.FailedEvents = 0
        /\ (feederPc # "off" /\ Len(replayResult.Events) = Len(replayChanges)) =>
              replayResult.SkippedEvents = replayResult.TotalEvents

\* C31: the result Replay returns has every change counted: the three
\* counters add up to TotalEvents = the number of changes, and Events holds
\* one event per change (violated: Replay waits for the workers only, not for
\* the collecting goroutine)
C31_AllCountedAtReturn ==
    ReplayReturned =>
        /\ returned.TotalEvents = Len(replayChanges)
        /\ returned.SuccessEvents + returned.FailedEvents + returned.SkippedEvents
              = returned.TotalEvents
        /\ Len(returned.Events) = Len(replayChanges)
        /\ \A i \in 1..Len(replayChanges) :
              Cardinality({j \in 1..Len(returned.Events) :
                              returned.Events[j].Change = replayChanges[i]})
                 = Cardinality({j \in 1..Len(replayChanges) :
                                   replayChanges[j] = replayChanges[i]})
        /\ doneCh = <<>>

\* what holds at the return: every change has exactly one event, collected
\* or still waiting on doneCh, and the counters count the collected ones
C31_CountedOrPending ==
    ReplayReturned =>
        /\ returned.TotalEvents = Len(replayChanges)
        /\ Len(replayResult.Events) + Len(doneCh) = Len(replayChanges)
        /\ replayResult.SuccessEvents + replayResult.FailedEvents
              + replayResult.SkippedEvents = Len(replayResult.Events)

\* the replay command has ended after a replay that returned a result
CmdEnded == cmdPc = "done" /\ returned # [Status |-> "ErrLoad"]

\* the lines of `lines` of one kind
LinesOf(lines, kind) == {i \in 1..Len(lines) : lines[i].line = kind}

\* C32: when the replay command ends, the totals are on the standard output
\* and, if --output was given, the per-event detail is in that file
\* (violated: with a failed event the command returns before it opens the file)
C32_SummaryAndOutput ==
    CmdEnded =>
        /\ \A kind \in {"total", "success", "failed", "skipped"} :
              LinesOf(stdout, kind) # {}
        /\ outputFile # "" =>
              /\ outFile # NoFile
              /\ LinesOf(outFile, "total") # {}
              /\ returned.Events # <<>> => LinesOf(outFile, "event") # {}

\* what holds: the totals are always printed, and the file is written when
\* no event is counted as failed
C32_SummaryPrinted ==
    CmdEnded =>
        /\ \A kind \in {"total", "success", "failed", "skipped"} :
              LinesOf(stdout, kind) # {}
        /\ (outputFile # "" /\ returned.FailedEvents = 0) =>
              /\ outFile # NoFile
              /\ LinesOf(outFile, "total") # {}

\* PrintReplayResult was called on the result of the replay
Printed == /\ returned # [Status |-> "ErrLoad"]
           /\ cmdPc \in {"printed", "summary", "done", "createFailed"}

\* C33: PrintReplayResult on a result with DetailedResults prints the four
\* totals and, for every event of the result, a line with its key, change
\* type and status, followed by its error message if it is FAILED
\* (violated: the loop stops after the first event of a short result)
C33_EveryEventPrinted ==
    (Printed /\ returned.DetailedResults) =>
        /\ \E i \in LinesOf(stdout, "total") : stdout[i].n = returned.TotalEvents
        /\ \E i \in LinesOf(stdout, "success") : stdout[i].n = returned.SuccessEvents
        /\ \E i \in LinesOf(stdout, "failed") : stdout[i].n = returned.FailedEvents
        /\ \E i \in LinesOf(stdout, "skipped") : stdout[i].n = returned.SkippedEvents
        /\ \A e \in 1..Len(returned.Events) :
              \E i \in LinesOf(stdout, "event") :
                 /\ stdout[i].Key = returned.Events[e].Change.Key
                 /\ stdout[i].ChangeType = returned.Events[e].Change.ChangeType
                 /\ stdout[i].Status = returned.Events[e].Status
                 /\ returned.Events[e].Status = "FAILED" =>
                       /\ i < Len(stdout)
                       /\ stdout[i + 1] = [line |-> "error",
                                           ErrorMessage |->
                                              returned.Events[e].ErrorMessage]

\* what holds: the totals are printed, and of the events the first one is
\* printed whenever there is one
C33_FirstEventPrinted ==
    (Printed /\ returned.DetailedResults) =>
        /\ \E i \in LinesOf(stdout, "total") : stdout[i].n = returned.TotalEvents
        /\ returned.Events # <<>> =>
              \E i \in LinesOf(stdout, "event") :
                 /\ stdout[i].Key = returned.Events[1].Change.Key
                 /\ stdout[i].Status = returned.Events[1].Status
        /\ Len(returned.Events) <= TailEvents =>
              Cardinality(LinesOf(stdout, "event")) <= 1

\* the call returns in this step
Returning == mainPc # "returned" /\ mainPc' = "returned"

\* the error at the head of errCh (rollback errors carry their key)
FirstReported == IF mainPc = "wait" THEN Head(errCh).err ELSE Head(errCh)

\* the room in errCh: one error per listed key in rollbackMultipleObjects,
\* one error in ProcessChangesStreaming
ErrChCap == IF mainPc \in {"wait", "start", "returned"} /\ batchSize = 0
            THEN Len(listedKeys) ELSE 1

\* an error in errCh stays at its head until the call returns it, the call
\* returns the head of errCh, and nil only if errCh is empty
FirstErrorKept ==
    /\ (errCh # <<>> /\ errCh' # <<>>) => Head(errCh') = Head(errCh)
    /\ (errCh # <<>> /\ errCh' = <<>>) => Returning
    /\ (Returning /\ errCh # <<>>) => result' = FirstReported
    /\ (Returning /\ errCh = <<>> /\ mainPc \in {"wait", "waitDone"}) => result' = "nil"

\* C34: a pool run over keys returns the first error reported to the error
\* channel and no later one, and the error channel is never over its
\* capacity (no report has to wait for room)
C34_FirstErrorWins ==
    /\ [][FirstErrorKept]_vars
    /\ [](Len(errCh) <= ErrChCap)

\* a multi-key rollback returned after two keys failed with different
\* errors: it returned the one reported first
C34_Witness ==
    /\ mainPc = "returned"
    /\ batchSize = 0
    /\ Len(errCh) >= 2
    /\ errCh[1].err # errCh[2].err
    /\ result = errCh[1].err

\* the history h is not empty and lies entirely at or after the cutoff
AllSinceCutoff(h) == h # <<>> /\ \A i \in 1..Len(h) : h[i].lm >= timestamp

\* no event of h is older than its oldest versions
OldestIsVersion(h) ==
    \E j \in VersionsOf(h) : \A l \in 1..Len(h) : h[j].lm <= h[l].lm

\* the list begins with the CREATE of an oldest version, without predecessor
BeginsWithCreate(e) ==
    /\ e.changes # <<>>
    /\ e.changes[1].ChangeType = "CREATE"
    /\ e.changes[1].VersionID \in OldestVersions(e.hist)
    /\ e.changes[1].PreviousVersionID = NoVersion

\* C35 as stated: the change list of a key whose whole history is at or after
\* T begins with a CREATE (violated: a history that begins with a delete
\* marker gives a list that begins with a DELETE)
C35_AllSinceBeginsWithCreate ==
    \A e \in Answers : AllSinceCutoff(e.hist) => BeginsWithCreate(e)

\* C35: the change list of a key whose whole history is at or after T, and
\* whose oldest event is a version, begins with the CREATE of the key's
\* oldest version, with an empty previousVersionId; if the oldest events are
\* delete markers only, it begins with a DELETE
C35_VersionFirstBeginsWithCreate ==
    \A e \in Answers :
        AllSinceCutoff(e.hist) =>
            IF OldestIsVersion(e.hist) THEN BeginsWithCreate(e)
            ELSE /\ e.changes # <<>>
                 /\ e.changes[1].ChangeType = "DELETE"
                 /\ e.changes[1].PreviousVersionID = NoVersion

\* a key created at T, updated and deleted later was enumerated: CREATE first
C35_Witness ==
    \E e \in Answers :
        /\ AllSinceCutoff(e.hist)
        /\ Len(e.hist) = 3
        /\ ~e.hist[1].marker /\ ~e.hist[2].marker /\ e.hist[3].marker
        /\ e.hist[1].lm = timestamp
        /\ e.hist[2].lm > timestamp
        /\ e.changes[1].ChangeType = "CREATE"
        /\ e.changes[1].VersionID = e.hist[1].vid

\* ---------------------------------------------------------------- C36
\* how often x occurs in a sequence
Occurrences(seq, x) == Cardinality({i \in 1..Len(seq) : seq[i] = x})
\* the changes of the sorted log the feeder has not sent yet
Unsent == SubSeq(replayChanges, fed + 1, Len(replayChanges))
\* the workers that hold an event of change c
Holders(c) == {w \in Workers : wevent[w] # NoEvent /\ wevent[w].Change = c}
\* the events sent on doneCh, collected or not
ReportedEvents == doneCh \o replayResult.Events
ReportedChanges == [i \in 1..Len(ReportedEvents) |-> ReportedEvents[i].Change]
\* every change of the log is in one place: not sent yet, in the input
\* channel, held by one worker, or reported
EachChangeInOnePlace ==
    feederPc # "off" =>
        \A i \in 1..Len(replayChanges) :
           LET c == replayChanges[i]
           IN Occurrences(replayChanges, c)
                 = Occurrences(Unsent, c) + Occurrences(eventCh, c)
                   + Cardinality(Holders(c)) + Occurrences(ReportedChanges, c)
\* the events whose change has been executed (they have their status)
WithStatus ==
    {w \in Workers : wevent[w] # NoEvent /\ wevent[w].Status # ""}
\* one store operation per executed change that stands for one, none in a
\* dry run; every reported event has been executed
ExecutedOnce ==
    /\ \A i \in 1..Len(ReportedEvents) :
          ReportedEvents[i].Status \in
             (IF dryRun THEN {"DRYRUN"} ELSE {"SUCCESS", "FAILED"})
    /\ Len(destCalls)
          = IF dryRun THEN 0
            ELSE Cardinality({w \in WithStatus : HasOperation(wevent[w].Change)})
                 + Cardinality({i \in 1..Len(ReportedEvents) :
                                   HasOperation(ReportedEvents[i].Change)})
\* Replay returns when the channel is drained, every worker has left and
\* every change has its event
DrainedAtReturn ==
    ReplayReturned =>
        /\ \A w \in Workers : wpc[w] \in {"off", "done"}
        /\ \E w \in Workers : wpc[w] = "done"
        /\ eventCh = <<>> /\ fed = Len(replayChanges)
        /\ Len(ReportedEvents) = Len(replayChanges)

\* C36: every change of the loaded log is taken by one worker, executed once
\* and reported as one ReplayEvent, whether or not other changes fail; the
\* workers exit once the input channel is drained and Replay returns, for
\* every log (the empty one too) and every number of workers
C36_ConsumedOnceAndReturns ==
    /\ [](EachChangeInOnePlace /\ ExecutedOnce /\ DrainedAtReturn)
    /\ <>(mainPc = "returned")

\* two workers have replayed a log of which one change failed and another
\* succeeded, and Replay has returned
C36_Witness ==
    /\ ReplayReturned
    /\ concurrency >= 2
    /\ \E i, j \in 1..Len(ReportedEvents) :
          /\ ReportedEvents[i].Status = "FAILED"
          /\ ReportedEvents[j].Status = "SUCCESS"

\* ---------------------------------------------------------------- C37
\* the worker pool of rollbackMultipleObjects has been started
PoolStarted == mainPc \in {"wait", "returned"} /\ listedKeys # <<>>
\* the calls of rollbackSingleObject made for key k
RollbackCalls(k) == {i \in 1..Len(runLog) : runLog[i].key = k}
\* the workers that have received key k and not yet called
AboutToRollback(k) == {w \in Workers : wpc[w] = "rollback" /\ wkey[w] = k}
\* a listed key is in the channel, with one worker, or rolled back once
EachKeyInOnePlace ==
    \A i \in 1..Len(listedKeys) :
       LET k == listedKeys[i]
       IN /\ Cardinality(RollbackCalls(k)) <= 1
          /\ Occurrences(keyCh, k) + Cardinality(AboutToRollback(k))
                + Cardinality(RollbackCalls(k)) = 1
\* a step of the pool or of the caller waiting for it
PoolStep ==
    \/ \E w \in Workers : WorkerReceive(w)
    \/ \E w \in Workers : WorkerDrained(w)
    \/ \E w \in Workers : WorkerRollback(w)
    \/ WaitAndReturn

\* C37: in rollbackMultipleObjects every listed key is passed to
\* rollbackSingleObject at most once over all workers, once when no key
\* fails; the call returns only after every worker has exited; a send on the
\* error channel always finds room, and while the call has not returned a
\* worker or the caller has a step to take
C37_KeysOnceNoBlocking ==
    PoolStarted =>
        /\ EachKeyInOnePlace
        /\ Len(errCh) <= Len(listedKeys)
        /\ mainPc = "wait" => ENABLED PoolStep
        /\ mainPc = "returned" =>
              /\ \A w \in Workers : wpc[w] \in {"off", "done"}
              /\ (\A i \in 1..Len(runLog) : runLog[i].err = "nil") =>
                    /\ result = "nil"
                    /\ \A i \in 1..Len(listedKeys) :
                          Cardinality(RollbackCalls(listedKeys[i])) = 1

\* two workers have rolled back two listed keys without an error and the
\* call has returned
C37_Witness ==
    /\ mainPc = "returned"
    /\ concurrency >= 2
    /\ Len(listedKeys) >= 2
    /\ Len(runLog) = Len(listedKeys)
    /\ result = "nil"
    /\ \E w1, w2 \in Workers : w1 # w2 /\ wkey[w1] # NoMarker /\ wkey[w2] # NoMarker

\* ---------------------------------------------------------------- C38
\* the workers of the streaming pool have all left (or were never started)
WorkersGone == \A w \in Workers : wpc[w] \in {"off", "done"}
\* a step of the feeding loop, of a worker or of the final wait is possible
StreamStep ==
    \/ FeedKey \/ FeedAbort \/ FeedClose
    \/ \E w \in Workers : WorkerEnumerate(w)
    \/ \E w \in Workers : WorkerEmit(w)
    \/ \E w \in Workers : WorkerLeave(w)
    \/ CollectChanges \/ CollectRest
    \/ CloseResultCh \/ ReturnAfterDone \/ ReturnErr

\* C38: ProcessChangesStreaming always returns: whatever keys fail in the
\* version listing and whatever callbacks fail, the feeding loop and the
\* final wait come to an end, and no worker stays blocked
C38_AlwaysReturns ==
    /\ [](mainPc \in {"feed", "wgWait", "waitDone"} => ENABLED StreamStep)
    /\ <>(mainPc = "returned")
    /\ <>[]WorkersGone

\* the call has returned after a worker failed on a key while keys were still
\* to be sent and a callback failed
C38_Witness ==
    /\ mainPc = "returned"
    /\ WorkersGone
    /\ Len(listedKeys) >= 2
    /\ \E i \in 1..Len(changeLog) : changeLog[i].err # "nil"
    /\ \E i \in 1..Len(callbacks) : callbacks[i].err # "nil"

\* ---------------------------------------------------------------- C39
\* a worker has failed on a key
EnumerationFailed == \E i \in 1..Len(changeLog) : changeLog[i].err # "nil"
\* the callback has returned an error for a batch
CallbackFailed == \E i \in 1..Len(callbacks) : callbacks[i].err # "nil"
\* the calls of getChangesForKey made for key k
EnumerationsOf(k) == {i \in 1..Len(changeLog) : changeLog[i].key = k}

\* C39: ProcessChangesStreaming returns nil only if every listed key was
\* enumerated without error and every callback invocation succeeded: once a
\* worker has failed on a key or the callback has failed on a batch, the
\* call returns an error, in every interleaving of feeder, workers and
\* collector; a nil return comes after the last callback
C39_NilOnlyIfAllSucceeded ==
    /\ (mainPc = "returned" /\ (EnumerationFailed \/ CallbackFailed))
          => result # "nil"
    /\ StreamSucceeded =>
          /\ \A i \in 1..Len(listedKeys) :
                Cardinality(EnumerationsOf(listedKeys[i])) = 1
          /\ WorkersGone
          /\ resultCh = <<>>
          /\ "doneCh" \in closedChs

\* the callback failed on the last batch, after every key had been enumerated
\* without error, and the call has returned that error
C39_Witness ==
    /\ mainPc = "returned"
    /\ "doneCh" \in closedChs
    /\ Len(changeLog) >= 2
    /\ ~EnumerationFailed
    /\ callbacks # <<>>
    /\ callbacks[Len(callbacks)].err # "nil"
    /\ \A i \in 1..(Len(callbacks) - 1) : callbacks[i].err = "nil"
    /\ result = "ErrCallback"

====
